---- MODULE Spec2Model ----
(***************************************************************************)
(* Order-fulfilment saga of rayyyu12/Orchestration-Framework: the order    *)
(* store and its change feed, the stream processor (dispatcher), the five  *)
(* step handlers, the inventory store and the asynchronous invocation      *)
(* transport.                                                              *)
(***************************************************************************)
EXTENDS Integers, Sequences, FiniteSets, TLC

VARIABLES
    orders,     \* orders_table: order_id -> item, or NoItem
    stock,      \* inventory_table: product_id -> item, or NoItem
    stock0,     \* inventory_table as it was when the run began
    feed,       \* change records of orders_table not yet delivered
    inv,        \* invocations of the step functions: queued, running, ended
    event,      \* the batch of the stream processor's run under study
    response,   \* what that run returned
    trace,      \* per record of that batch: what the loop did with it
    raises,     \* positions of the batch whose lambda_client.invoke raised
    dups        \* deliveries repeated so far by the feed and the transport

vars == <<orders, stock, stock0, feed, inv, event, response, trace, raises, dups>>

----------------------------------------------------------------------------
(* lib/models.py: the enumerations *)

RECEIVED == "RECEIVED"
VALIDATED == "VALIDATED"
INVENTORY_CHECKED == "INVENTORY_CHECKED"
PAYMENT_PROCESSED == "PAYMENT_PROCESSED"
FULFILLED == "FULFILLED"
COMPLETED == "COMPLETED"
FAILED == "FAILED"

OrderStatus ==
    {RECEIVED, VALIDATED, INVENTORY_CHECKED, PAYMENT_PROCESSED, FULFILLED,
     COMPLETED, FAILED}

PaymentStatus == {"PENDING", "PROCESSING", "COMPLETED", "FAILED"}

\* The forward chain of the lifecycle, as a position; FAILED is off the chain.
Rank(s) ==
    CASE s = RECEIVED -> 1
      [] s = VALIDATED -> 2
      [] s = INVENTORY_CHECKED -> 3
      [] s = PAYMENT_PROCESSED -> 4
      [] s = FULFILLED -> 5
      [] s = COMPLETED -> 6
      [] OTHER -> 0

----------------------------------------------------------------------------
(* functions/stream_processor.py *)

\* Python values after dynamodb_to_dict: tagged by their Python type.
PyNone == [py |-> "None"]
PyStr(s) == [py |-> "str", v |-> s]
PyFloat(n) == [py |-> "float", v |-> n]
PyBool(b) == [py |-> "bool", v |-> b]
PyDict(d) == [py |-> "dict", v |-> d]

\* Python truthiness of a converted value ("not x" is its negation).
Truthy(x) ==
    CASE x.py = "None" -> FALSE
      [] x.py = "str" -> x.v # ""
      [] x.py = "float" -> x.v # 0
      [] x.py = "bool" -> x.v
      [] x.py = "dict" -> DOMAIN x.v # {}

\* The attribute types dynamodb_to_dict converts; an attribute of any other
\* type ("L" is not modelled) is left out of the result.
Recognised(value) == DOMAIN value \cap {"S", "N", "BOOL", "NULL", "M"} # {}

RECURSIVE dynamodb_to_dict(_)
dynamodb_to_dict(dynamodb_item) ==
    [key \in {k \in DOMAIN dynamodb_item : Recognised(dynamodb_item[k])} |->
        LET value == dynamodb_item[key] IN
        IF "S" \in DOMAIN value THEN PyStr(value.S)
        ELSE IF "N" \in DOMAIN value THEN PyFloat(value.N)
        ELSE IF "BOOL" \in DOMAIN value THEN PyBool(value.BOOL)
        ELSE IF "NULL" \in DOMAIN value THEN PyNone
        ELSE PyDict(dynamodb_to_dict(value.M))]

\* dict.get(key): None when the key is absent.
DictGet(d, key) == IF key \in DOMAIN d THEN d[key] ELSE PyNone

NoFunction == "None"
StepFunctions ==
    {"ValidatorFunction", "InventoryFunction", "PaymentFunction",
     "FulfillmentFunction", "NotificationFunction"}

\* Mutant of status_to_function: the table binds a step to COMPLETED too.
status_to_function_completed(status) ==
    CASE status = RECEIVED -> "ValidatorFunction"
      [] status = VALIDATED -> "InventoryFunction"
      [] status = INVENTORY_CHECKED -> "PaymentFunction"
      [] status = PAYMENT_PROCESSED -> "FulfillmentFunction"
      [] status = FULFILLED -> "NotificationFunction"
      [] status = COMPLETED -> "NotificationFunction"
      [] OTHER -> NoFunction

\* Mutant of status_to_function: the table has no entry for FULFILLED.
status_to_function_unnotified(status) ==
    CASE status = RECEIVED -> "ValidatorFunction"
      [] status = VALIDATED -> "InventoryFunction"
      [] status = INVENTORY_CHECKED -> "PaymentFunction"
      [] status = PAYMENT_PROCESSED -> "FulfillmentFunction"
      [] OTHER -> NoFunction

\* The status_to_function table and its .get(status).
status_to_function(status) ==
    CASE status = RECEIVED -> "ValidatorFunction"
      [] status = VALIDATED -> "InventoryFunction"
      [] status = INVENTORY_CHECKED -> "PaymentFunction"
      [] status = PAYMENT_PROCESSED -> "FulfillmentFunction"
      [] status = FULFILLED -> "NotificationFunction"
      [] OTHER -> NoFunction

\* os.environ.get("AWS_SAM_LOCAL", "serverless-orch-api")
stack_name == "serverless-orch-api"

\* process_order_status: the result entry and the invoke call made (if any).
\* invokeRaises: lambda_client.invoke raises for this record.
process_order_status(order_id, status, invokeRaises) ==
    IF status.py = "dict"
    THEN \* an unhashable key: status_to_function.get raises TypeError
         [entry |-> [order_id |-> order_id, status |-> status,
                     error |-> "TypeError",
                     message |-> "Failed to process order"],
          call |-> <<>>]
    ELSE
    LET function_suffix ==
            IF status.py = "str" THEN status_to_function(status.v)
            ELSE NoFunction
    IN  IF function_suffix = NoFunction
        THEN [entry |-> [order_id |-> order_id, status |-> status,
                         message |-> "No processing required for this status"],
              call |-> <<>>]
        ELSE IF invokeRaises
        THEN [entry |-> [order_id |-> order_id, status |-> status,
                         error |-> "invoke raised",
                         message |-> "Failed to process order"],
              call |-> <<>>]
        ELSE [entry |-> [order_id |-> order_id, status |-> status,
                         invoked_function |-> <<stack_name, function_suffix>>,
                         message |-> "Successfully invoked Lambda function"],
              call |-> <<[FunctionName |-> <<stack_name, function_suffix>>,
                          InvocationType |-> "Event",
                          Payload |-> [order_id |-> order_id]]>>]

\* Mutant of ProcessRecord: a record is passed over only when its snapshot
\* lacks both order_id and status.
ProcessRecord_both(record, invokeRaises) ==
    IF "eventName" \notin DOMAIN record
    THEN [kind |-> "error",
          entry |-> [status |-> "error", error |-> "KeyError: eventName"],
          call |-> <<>>]
    ELSE IF record.eventName \notin {"INSERT", "MODIFY"}
    THEN [kind |-> "skip", call |-> <<>>]
    ELSE IF "dynamodb" \notin DOMAIN record
    THEN [kind |-> "error",
          entry |-> [status |-> "error", error |-> "KeyError: dynamodb"],
          call |-> <<>>]
    ELSE IF "NewImage" \notin DOMAIN record.dynamodb
            \/ DOMAIN record.dynamodb.NewImage = {}
    THEN [kind |-> "skip", call |-> <<>>]
    ELSE
    LET order_data == dynamodb_to_dict(record.dynamodb.NewImage)
        order_id == DictGet(order_data, "order_id")
        status == DictGet(order_data, "status")
    IN  IF ~Truthy(order_id) /\ ~Truthy(status)
        THEN [kind |-> "skip", call |-> <<>>]
        ELSE LET r == process_order_status(order_id, status, invokeRaises)
             IN  [kind |-> "entry", entry |-> r.entry, call |-> r.call]

\* One turn of the handler's loop over a record: "skip" (continue), "error"
\* (the except clause) or "entry" (process_order_status was called).
ProcessRecord(record, invokeRaises) ==
    IF "eventName" \notin DOMAIN record
    THEN [kind |-> "error",
          entry |-> [status |-> "error", error |-> "KeyError: eventName"],
          call |-> <<>>]
    ELSE IF record.eventName \notin {"INSERT", "MODIFY"}
    THEN [kind |-> "skip", call |-> <<>>]
    ELSE IF "dynamodb" \notin DOMAIN record
    THEN [kind |-> "error",
          entry |-> [status |-> "error", error |-> "KeyError: dynamodb"],
          call |-> <<>>]
    ELSE IF "NewImage" \notin DOMAIN record.dynamodb
            \/ DOMAIN record.dynamodb.NewImage = {}
    THEN [kind |-> "skip", call |-> <<>>]
    ELSE
    LET order_data == dynamodb_to_dict(record.dynamodb.NewImage)
        order_id == DictGet(order_data, "order_id")
        status == DictGet(order_data, "status")
    IN  IF ~Truthy(order_id) \/ ~Truthy(status)
        THEN [kind |-> "skip", call |-> <<>>]
        ELSE LET r == process_order_status(order_id, status, invokeRaises)
             IN  [kind |-> "entry", entry |-> r.entry, call |-> r.call]

\* Mutant of ProcessRecords: the loop has no try/except, so the first record
\* that raises ends the handler.
RECURSIVE ProcessRecordsAbort(_, _, _)
ProcessRecordsAbort(records, k, raising) ==
    IF k > Len(records)
    THEN [results |-> <<>>, calls |-> <<>>, trace |-> <<>>, raised |-> FALSE]
    ELSE LET one == ProcessRecord(records[k], k \in raising) IN
         IF one.kind = "error"
         THEN [results |-> <<>>, calls |-> <<>>, trace |-> <<>>,
               raised |-> TRUE]
         ELSE LET rest == ProcessRecordsAbort(records, k + 1, raising) IN
              [results |-> (IF one.kind = "skip" THEN <<>> ELSE <<one.entry>>)
                              \o rest.results,
               calls |-> one.call \o rest.calls,
               trace |-> <<one>> \o rest.trace,
               raised |-> rest.raised]

\* The handler's loop: results and completed invoke calls, in batch order.
RECURSIVE ProcessRecords(_, _, _)
ProcessRecords(records, k, raising) ==
    IF k > Len(records)
    THEN [results |-> <<>>, calls |-> <<>>, trace |-> <<>>, raised |-> FALSE]
    ELSE LET one == ProcessRecord(records[k], k \in raising)
             rest == ProcessRecords(records, k + 1, raising)
         IN  [results |-> (IF one.kind = "skip" THEN <<>> ELSE <<one.entry>>)
                             \o rest.results,
              calls |-> one.call \o rest.calls,
              trace |-> <<one>> \o rest.trace,
              raised |-> rest.raised]

\* An exception that leaves the handler (lambda_handler_decorator re-raises
\* it to the event source).
Raised == [status |-> "raised"]

\* handler(event, context): its return value, the invoke calls it made and,
\* per record, what the loop did.
\* Mutant of handler: processed_count is the number of records of the batch.
handler_batch(records, raising) ==
    LET done == ProcessRecords(records, 1, raising)
    IN  [response |-> IF done.raised THEN Raised
                      ELSE [processed_count |-> Len(records),
                            results |-> done.results],
         calls |-> done.calls,
         trace |-> done.trace]

handler(records, raising) ==
    LET done == ProcessRecords(records, 1, raising)
    IN  [response |-> IF done.raised THEN Raised
                      ELSE [processed_count |-> Len(done.results),
                            results |-> done.results],
         calls |-> done.calls,
         trace |-> done.trace]

----------------------------------------------------------------------------
(* Bounds of the model *)

MaxOrders == 1      \* orders the client creates
MaxStock == 1       \* initial stock_quantity of a product is 0..MaxStock
MaxInv == 6         \* invocations the transport carries in one run
MaxRetry == 1       \* re-invocations of an invocation that raised
MaxDup == 1         \* deliveries the feed and the transport repeat in one run

----------------------------------------------------------------------------
(* lib/models.py: Order, and the items of orders_table *)

NoItem == [none |-> TRUE]
NoTx == 0           \* transaction_id: None
NoAmount == -1      \* amount: None
NoNote == [text |-> "None", n |-> 0]
Note(text, n) == [text |-> text, n |-> n]

Products == {"product-1", "product-2"}

\* Order ids and how each is spelt (order_id[-1] is read by process_payment).
OrderIdList == <<"ord-3", "ord-1", "ord-2">>
Spelling(order_id) ==
    CASE order_id = "ord-3" -> <<"o", "r", "d", "-", "3">>
      [] order_id = "ord-1" -> <<"o", "r", "d", "-", "1">>
      [] order_id = "ord-2" -> <<"o", "r", "d", "-", "2">>
OrderIds == {OrderIdList[n] : n \in 1..Len(OrderIdList)}

RECURSIVE SumOver(_, _)
SumOver(items, k) ==
    IF k > Len(items) THEN 0
    ELSE items[k].quantity * items[k].unit_price + SumOver(items, k + 1)

\* Order.calculate_total (prices in cents)
calculate_total(order) == SumOver(order.items, 1)

\* A request body of POST /orders, as Order(**body) reads it.
GoodCustomer ==
    [customer_id |-> "cust-12345", email |-> <<"a", "@", "b", ".", "c">>,
     name |-> "Test Customer"]
GoodAddress ==
    [street |-> "123 Main St", city |-> "Anytown", postal_code |-> "12345",
     country |-> "US"]
BodyOne ==
    [customer |-> GoodCustomer, shipping_address |-> GoodAddress,
     items |-> <<[product_id |-> "product-1", quantity |-> 1,
                  unit_price |-> 1999]>>,
     payment |-> [payment_method |-> "credit_card"]]
BodyTwo ==
    [customer |-> GoodCustomer, shipping_address |-> GoodAddress,
     items |-> <<[product_id |-> "product-1", quantity |-> 1,
                  unit_price |-> 1999],
                 [product_id |-> "product-2", quantity |-> 1,
                  unit_price |-> 4999]>>,
     payment |-> [payment_method |-> "credit_card"]]
BodyNoEmail ==
    [customer |-> [customer_id |-> "cust-12345", email |-> <<>>,
                   name |-> "Test Customer"],
     shipping_address |-> GoodAddress,
     items |-> <<[product_id |-> "product-1", quantity |-> 1,
                  unit_price |-> 1999]>>,
     payment |-> [payment_method |-> "credit_card"]]
Bodies == {BodyOne, BodyTwo, BodyNoEmail}

\* Order(**body) takes the body: the four fields without a default are
\* there, every item passes its validators, and a status, when the body has
\* one, is a value of OrderStatus. Otherwise it raises a ValueError.
Accepts(body) ==
    /\ {"customer", "items", "shipping_address", "payment"}
           \subseteq DOMAIN body
    /\ \A k \in 1..Len(body.items) :
          body.items[k].quantity > 0 /\ body.items[k].unit_price > 0
    /\ "status" \in DOMAIN body => body.status \in OrderStatus

\* Mutant of NewOrder: create_order does not set total_amount, and
\* to_dynamo_dict stores the field as it is.
NewOrder_unset(order_id, body) ==
    [order_id |-> order_id,
     created_at |-> "t0",
     updated_at |-> "t0",
     customer |-> body.customer,
     items |-> body.items,
     shipping_address |-> body.shipping_address,
     status |-> IF "status" \in DOMAIN body THEN body.status ELSE RECEIVED,
     payment |-> [payment_method |-> body.payment.payment_method,
                  transaction_id |-> NoTx,
                  status |-> "PENDING",
                  amount |-> NoAmount],
     total_amount |-> 0,
     notes |-> NoNote]

\* Order(**body) with the defaults of the model, then to_dynamo_dict.
NewOrder(order_id, body) ==
    LET order ==
            [order_id |-> order_id,
             created_at |-> "t0",
             updated_at |-> "t0",
             customer |-> body.customer,
             items |-> body.items,
             shipping_address |-> body.shipping_address,
             status |-> IF "status" \in DOMAIN body THEN body.status
                        ELSE RECEIVED,
             payment |-> [payment_method |-> body.payment.payment_method,
                          transaction_id |-> NoTx,
                          status |-> "PENDING",
                          amount |-> NoAmount],
             total_amount |-> 0,
             notes |-> NoNote]
    IN  [order EXCEPT !.total_amount = calculate_total(order)]

\* The post-write snapshot the change feed carries, in DynamoDB's typed form.
NewImage(item) ==
    [order_id |-> [S |-> item.order_id],
     status |-> [S |-> item.status],
     payment |-> [M |-> [status |-> [S |-> item.payment.status],
                         transaction_id |->
                             IF item.payment.transaction_id = NoTx
                             THEN [NULL |-> TRUE]
                             ELSE [N |-> item.payment.transaction_id]]]]

ChangeRecord(eventName, item) ==
    [eventName |-> eventName, dynamodb |-> [NewImage |-> NewImage(item)]]

----------------------------------------------------------------------------
(* functions/order_validator.py: validate_order *)

Contains(chars, c) == \E k \in 1..Len(chars) : chars[k] = c

required_address_fields == <<"street", "city", "postal_code", "country">>

\* Mutant of MissingAddressField: a field that is present but empty passes.
RECURSIVE MissingAddressField_present(_, _)
MissingAddressField_present(address, k) ==
    IF k > Len(required_address_fields) THEN "None"
    ELSE LET field == required_address_fields[k] IN
         IF field \notin DOMAIN address
         THEN field
         ELSE MissingAddressField_present(address, k + 1)

RECURSIVE MissingAddressField(_, _)
MissingAddressField(address, k) ==
    IF k > Len(required_address_fields) THEN "None"
    ELSE LET field == required_address_fields[k] IN
         IF field \notin DOMAIN address \/ address[field] = ""
         THEN field
         ELSE MissingAddressField(address, k + 1)

\* Mutant of validate_order: the items are checked before the address.
validate_order_items_first(order) ==
    IF order.customer.email = <<>> \/ order.customer.name = ""
    THEN [is_valid |-> FALSE,
          message |-> Note("Customer information is incomplete", 0)]
    ELSE IF order.items = <<>>
    THEN [is_valid |-> FALSE, message |-> Note("Order has no items", 0)]
    ELSE IF MissingAddressField(order.shipping_address, 1) # "None"
    THEN [is_valid |-> FALSE,
          message |-> Note("Shipping address is missing "
                           \o MissingAddressField(order.shipping_address, 1), 0)]
    ELSE IF order.payment.payment_method = ""
    THEN [is_valid |-> FALSE, message |-> Note("Payment method is required", 0)]
    ELSE IF ~Contains(order.customer.email, "@")
            \/ ~Contains(order.customer.email, ".")
    THEN [is_valid |-> FALSE, message |-> Note("Invalid email format", 0)]
    ELSE [is_valid |-> TRUE, message |-> Note("Order is valid", 0)]

validate_order(order) ==
    IF order.customer.email = <<>> \/ order.customer.name = ""
    THEN [is_valid |-> FALSE,
          message |-> Note("Customer information is incomplete", 0)]
    ELSE IF MissingAddressField(order.shipping_address, 1) # "None"
    THEN [is_valid |-> FALSE,
          message |-> Note("Shipping address is missing "
                           \o MissingAddressField(order.shipping_address, 1), 0)]
    ELSE IF order.items = <<>>
    THEN [is_valid |-> FALSE, message |-> Note("Order has no items", 0)]
    ELSE IF order.payment.payment_method = ""
    THEN [is_valid |-> FALSE, message |-> Note("Payment method is required", 0)]
    ELSE IF ~Contains(order.customer.email, "@")
            \/ ~Contains(order.customer.email, ".")
    THEN [is_valid |-> FALSE, message |-> Note("Invalid email format", 0)]
    ELSE [is_valid |-> TRUE, message |-> Note("Order is valid", 0)]

----------------------------------------------------------------------------
(* lib/utils.py: the two tables *)

Exists(order_id) == orders[order_id] # NoItem

\* The instant of a write (utcnow): some time after the order's creation at
\* "t0"; the instants of different writes are not told apart.
Now == "t1"

\* Mutant of update_order_status: SET #status, updated_at and nothing else.
update_order_status_bare(order_id, status, notes) ==
    [orders[order_id] EXCEPT
        !.status = status,
        !.updated_at = Now]

\* update_order_status: the item after SET #status, updated_at [, notes].
\* "if notes:" leaves the stored notes alone for an empty note.
update_order_status(order_id, status, notes) ==
    [orders[order_id] EXCEPT
        !.status = status,
        !.updated_at = Now,
        !.notes = IF notes # NoNote THEN notes ELSE @]

\* Mutant of update_payment_info: SET payment = :payment, the whole map.
update_payment_info_map(order_id, transaction_id, status, amount) ==
    [orders[order_id] EXCEPT
        !.payment = [status |-> status, transaction_id |-> transaction_id,
                     amount |-> amount],
        !.updated_at = Now]

\* Mutant of update_payment_info: payment.status is left as it was.
update_payment_info_pending(order_id, transaction_id, status, amount) ==
    [orders[order_id] EXCEPT
        !.updated_at = Now,
        !.payment.transaction_id = IF transaction_id # NoTx
                                   THEN transaction_id ELSE @,
        !.payment.amount = IF amount # NoAmount THEN amount ELSE @]

\* update_payment_info: the item after SET payment.status, updated_at
\* [, payment.transaction_id] [, payment.amount].
update_payment_info(order_id, transaction_id, status, amount) ==
    [orders[order_id] EXCEPT
        !.payment.status = status,
        !.updated_at = Now,
        !.payment.transaction_id = IF transaction_id # NoTx
                                   THEN transaction_id ELSE @,
        !.payment.amount = IF amount # NoAmount THEN amount ELSE @]

\* Mutant of Commit: the update is applied by status scan, to every stored
\* item that has the status the written item had.
Commit_scan(item) ==
    /\ orders' = [o \in DOMAIN orders |->
                     IF o = item.order_id THEN item
                     ELSE IF Exists(o)
                             /\ orders[o].status = orders[item.order_id].status
                          THEN [orders[o] EXCEPT !.status = item.status]
                          ELSE orders[o]]
    /\ feed' = Append(feed, ChangeRecord("MODIFY", item))

\* A committed write of orders_table and the change record it emits.
Commit(item) ==
    /\ orders' = [orders EXCEPT ![item.order_id] = item]
    /\ feed' = Append(feed, ChangeRecord("MODIFY", item))

\* An item of inventory_table (name, description and price are not read).
InventoryItem(product_id, stock_quantity) ==
    [product_id |-> product_id, stock_quantity |-> stock_quantity]

\* Mutant of check_inventory: stock must exceed the requested quantity.
check_inventory_strict(product_id, quantity) ==
    IF stock[product_id] = NoItem THEN FALSE
    ELSE stock[product_id].stock_quantity > quantity

\* check_inventory: the product's item exists and holds enough stock.
check_inventory(product_id, quantity) ==
    IF stock[product_id] = NoItem THEN FALSE
    ELSE stock[product_id].stock_quantity >= quantity

\* Mutant of ConditionHolds: the condition only asks that the item exists.
ConditionHolds_exists(product_id, quantity) ==
    stock[product_id] # NoItem

\* The ConditionExpression of update_inventory's update_item: false of a
\* product that has no item.
ConditionHolds(product_id, quantity) ==
    stock[product_id] # NoItem /\ stock[product_id].stock_quantity >= quantity

\* Mutant of update_inventory: update_item without a ConditionExpression.
update_inventory_unconditional(product_id, quantity) ==
    IF stock[product_id] # NoItem
    THEN [raised |-> FALSE, success |-> TRUE,
          stock |-> [stock EXCEPT ![product_id].stock_quantity = @ - quantity]]
    ELSE [raised |-> TRUE, success |-> FALSE, stock |-> stock]

\* update_inventory: the conditional decrement. When update_item raises (a
\* refused condition is botocore's ClientError), the first except clause names
\* boto3.exceptions.ClientError, which boto3.exceptions does not define: the
\* lookup raises AttributeError out of update_inventory, and no clause of this
\* try statement returns False.
update_inventory(product_id, quantity) ==
    IF ConditionHolds(product_id, quantity)
    THEN [raised |-> FALSE, success |-> TRUE,
          stock |-> [stock EXCEPT ![product_id].stock_quantity = @ - quantity]]
    ELSE [raised |-> TRUE, success |-> FALSE, stock |-> stock]

----------------------------------------------------------------------------
(* functions/payment_service.py: process_payment *)

LargeAmount == 100000   \* "amount > 1000", in cents

LastChar(order_id) == Spelling(order_id)[Len(Spelling(order_id))]

\* Mutant of process_payment: the amount plays no part in the decision.
process_payment_flat(order, run) ==
    LET amount == IF order.total_amount # 0 THEN order.total_amount
                  ELSE calculate_total(order)
        success == LastChar(order.order_id) \notin {"1"}
    IN  IF success
        THEN [success |-> TRUE, transaction_id |-> run, amount |-> amount]
        ELSE [success |-> FALSE, transaction_id |-> NoTx, amount |-> amount]

process_payment(order, run) ==
    LET amount == IF order.total_amount # 0 THEN order.total_amount
                  ELSE calculate_total(order)
        success == IF amount > LargeAmount
                   THEN LastChar(order.order_id) \notin {"1", "2"}
                   ELSE LastChar(order.order_id) \notin {"1"}
    IN  IF success
        THEN [success |-> TRUE, transaction_id |-> run, amount |-> amount]
        ELSE [success |-> FALSE, transaction_id |-> NoTx, amount |-> amount]

----------------------------------------------------------------------------
(* The invocations of the step functions *)

\* What a step function writes when it succeeds.
SuccessStatus(fn) ==
    CASE fn = "ValidatorFunction" -> VALIDATED
      [] fn = "InventoryFunction" -> INVENTORY_CHECKED
      [] fn = "PaymentFunction" -> PAYMENT_PROCESSED
      [] fn = "FulfillmentFunction" -> FULFILLED
      [] fn = "NotificationFunction" -> COMPLETED

\* What a handler returned: NoResult while it runs, Raised when it raised.
NoResult == [status |-> "none"]
Result(status, order_id) == [status |-> status, order_id |-> order_id]

\* An asynchronous invocation as the transport holds it.
Invocation(fn, order_id) ==
    [fn |-> fn, order_id |-> order_id, pc |-> "queued", attempt |-> 0,
     order |-> NoItem, k |-> 1, seen |-> <<>>, result |-> NoResult,
     wrote |-> <<>>]

RECURSIVE Invocations(_, _)
Invocations(cs, k) ==
    IF k > Len(cs) THEN <<>>
    ELSE <<Invocation(cs[k].FunctionName[2], cs[k].Payload.order_id.v)>>
         \o Invocations(cs, k + 1)

Running(i) == inv[i].pc \notin {"queued", "done", "raised"}

Is(i, fn, pc) == i \in 1..Len(inv) /\ inv[i].fn = fn /\ inv[i].pc = pc

\* The handler returns result (a dict with "status" and "order_id").
Return(i, result, status) ==
    [inv EXCEPT ![i].pc = "done",
                ![i].result = Result(result, inv[i].order_id),
                ![i].wrote = IF status = "None" THEN @ ELSE Append(@, status)]

\* The try block raised: the handler goes to its except clause.
Raise(i) == [inv EXCEPT ![i].pc = "except"]

----------------------------------------------------------------------------
(* functions/order_api.py: create_order *)

CreateOrder(order_id, body) ==
    /\ Accepts(body)
    /\ ~Exists(order_id)
    /\ Cardinality({o \in DOMAIN orders : Exists(o)}) < MaxOrders
    /\ orders' = [orders EXCEPT ![order_id] = NewOrder(order_id, body)]
    /\ feed' = Append(feed, ChangeRecord("INSERT", NewOrder(order_id, body)))
    /\ UNCHANGED <<stock, inv, stock0, event, response, trace, raises, dups>>

----------------------------------------------------------------------------
(* The change feed invoking functions/stream_processor.py: handler *)

batch_size == 10

Min(a, b) == IF a < b THEN a ELSE b

\* The calls of cs for which the transport holds no invocation yet.
RECURSIVE NotYetInvoked(_, _)
NotYetInvoked(cs, k) ==
    IF k > Len(cs) THEN <<>>
    ELSE (IF \E i \in 1..Len(inv) :
                /\ inv[i].fn = cs[k].FunctionName[2]
                /\ inv[i].order_id = cs[k].Payload.order_id.v
          THEN <<>> ELSE <<cs[k]>>)
         \o NotYetInvoked(cs, k + 1)

\* Mutant of StreamDeliverUpTo: the processor remembers what it invoked and
\* invokes a step for an order at most once.
StreamDeliverUpTo_once(cap) ==
    \E n \in 1..Min(Len(feed), batch_size) :
        LET run == handler(SubSeq(feed, 1, n), {}) IN
        /\ Len(inv) + Len(run.calls) <= cap
        /\ inv' = inv \o Invocations(NotYetInvoked(run.calls, 1), 1)
        /\ feed' = SubSeq(feed, n + 1, Len(feed))
        /\ UNCHANGED <<orders, stock, stock0, event, response, trace, raises, dups>>

\* The event source hands the next records to the handler; every invoke call
\* that completed queues an invocation of a step function.
StreamDeliverUpTo(cap) ==
    \E n \in 1..Min(Len(feed), batch_size) :
        LET run == handler(SubSeq(feed, 1, n), {}) IN
        /\ Len(inv) + Len(run.calls) <= cap
        /\ inv' = inv \o Invocations(run.calls, 1)
        /\ feed' = SubSeq(feed, n + 1, Len(feed))
        /\ UNCHANGED <<orders, stock, stock0, event, response, trace, raises, dups>>

StreamDeliver == StreamDeliverUpTo(MaxInv)

\* At-least-once delivery of the feed: a record is handed over and stays due.
StreamRedeliver ==
    /\ feed # <<>>
    /\ dups < MaxDup
    /\ dups' = dups + 1
    /\ LET run == handler(SubSeq(feed, 1, 1), {}) IN
       /\ run.calls # <<>>
       /\ Len(inv) + Len(run.calls) <= MaxInv
       /\ inv' = inv \o Invocations(run.calls, 1)
    /\ UNCHANGED <<orders, stock, feed, stock0, event, response, trace, raises>>

----------------------------------------------------------------------------
(* The step handlers; i is an invocation *)

\* get_order and Order.from_dynamo_dict, the first statements of every try.
GetOrder(i) ==
    /\ i \in 1..Len(inv)
    /\ inv[i].pc = "queued"
    /\ inv' = IF Exists(inv[i].order_id)
              THEN [inv EXCEPT ![i].pc = "loaded",
                               ![i].order = orders[inv[i].order_id]]
              ELSE Raise(i)
    /\ UNCHANGED <<orders, stock, feed, stock0, event, response, trace, raises, dups>>

\* A status write of a handler's try block: update_order_status reads the key
\* (ValueError when the order is gone) and writes; the handler returns result.
WriteAndReturn(i, status, notes, result) ==
    IF Exists(inv[i].order_id)
    THEN /\ Commit(update_order_status(inv[i].order_id, status, notes))
         /\ inv' = Return(i, result, status)
    ELSE /\ inv' = Raise(i)
         /\ UNCHANGED <<orders, feed>>

\* order_validator.handler after the load
ValidatorWrite(i) ==
    /\ Is(i, "ValidatorFunction", "loaded")
    /\ LET v == validate_order(inv[i].order) IN
       IF v.is_valid
       THEN WriteAndReturn(i, VALIDATED,
                           Note("Order validated successfully", 0), "success")
       ELSE WriteAndReturn(i, FAILED,
                           Note("Validation failed: " \o v.message.text, 0),
                           "failed")
    /\ UNCHANGED <<stock, stock0, event, response, trace, raises, dups>>

\* Mutant of InventoryCheck: an item found available is reserved, its
\* quantity taken off the stock.
InventoryCheck_reserve(i) ==
    /\ Is(i, "InventoryFunction", "loaded")
    /\ inv[i].k <= Len(inv[i].order.items)
    /\ LET item == inv[i].order.items[inv[i].k] IN
       /\ inv' = [inv EXCEPT
                     ![i].k = @ + 1,
                     ![i].seen = Append(@,
                         [product_id |-> item.product_id,
                          quantity |-> item.quantity,
                          recorded |-> stock[item.product_id],
                          available |-> check_inventory(item.product_id,
                                                        item.quantity)])]
       /\ stock' = IF check_inventory(item.product_id, item.quantity)
                   THEN [stock EXCEPT ![item.product_id].stock_quantity =
                                          @ - item.quantity]
                   ELSE stock
    /\ UNCHANGED <<orders, feed, stock0, event, response, trace, raises, dups>>

\* Mutant of InventoryCheck: the loop ends at the first unavailable item.
InventoryCheck_stop(i) ==
    /\ Is(i, "InventoryFunction", "loaded")
    /\ inv[i].k <= Len(inv[i].order.items)
    /\ LET item == inv[i].order.items[inv[i].k] IN
       inv' = [inv EXCEPT
                  ![i].k = IF check_inventory(item.product_id, item.quantity)
                           THEN @ + 1
                           ELSE Len(inv[i].order.items) + 1,
                  ![i].seen = Append(@,
                      [product_id |-> item.product_id,
                       quantity |-> item.quantity,
                       recorded |-> stock[item.product_id],
                       available |-> check_inventory(item.product_id,
                                                     item.quantity)])]
    /\ UNCHANGED <<orders, stock, feed, stock0, event, response, trace, raises, dups>>

\* inventory_service.check_order_inventory: one turn of its loop
InventoryCheck(i) ==
    /\ Is(i, "InventoryFunction", "loaded")
    /\ inv[i].k <= Len(inv[i].order.items)
    /\ LET item == inv[i].order.items[inv[i].k] IN
       inv' = [inv EXCEPT
                  ![i].k = @ + 1,
                  ![i].seen = Append(@,
                      [product_id |-> item.product_id,
                       quantity |-> item.quantity,
                       recorded |-> stock[item.product_id],
                       available |-> check_inventory(item.product_id,
                                                     item.quantity)])]
    /\ UNCHANGED <<orders, stock, feed, stock0, event, response, trace, raises, dups>>

Unavailable(results) == {k \in 1..Len(results) : ~results[k].available}

\* inventory_service.handler once the loop is over
InventoryWrite(i) ==
    /\ Is(i, "InventoryFunction", "loaded")
    /\ inv[i].k > Len(inv[i].order.items)
    /\ IF \A k \in 1..Len(inv[i].seen) : inv[i].seen[k].available
       THEN WriteAndReturn(i, INVENTORY_CHECKED,
                           Note("All items available in inventory", 0),
                           "success")
       ELSE WriteAndReturn(i, FAILED,
                           Note("Inventory check failed: item(s) unavailable",
                                Cardinality(Unavailable(inv[i].seen))),
                           "failed")
    /\ UNCHANGED <<stock, stock0, event, response, trace, raises, dups>>

\* The transaction id of a run of process_payment (uuid4: fresh per run).
TxOf(i) == i + MaxInv * inv[i].attempt

\* payment_service.handler: process_payment, then update_payment_info, whose
\* update_item of a nested path raises when the item is gone.
PaymentInfo(i) ==
    /\ Is(i, "PaymentFunction", "loaded")
    /\ LET payment_result == process_payment(inv[i].order, TxOf(i)) IN
       IF Exists(inv[i].order_id)
       THEN /\ Commit(IF payment_result.success
                      THEN update_payment_info(inv[i].order_id,
                               payment_result.transaction_id, "COMPLETED",
                               payment_result.amount)
                      ELSE update_payment_info(inv[i].order_id, NoTx, "FAILED",
                               inv[i].order.total_amount))
            /\ inv' = [inv EXCEPT ![i].pc = "paid",
                                  ![i].seen = <<payment_result>>]
       ELSE /\ inv' = Raise(i)
            /\ UNCHANGED <<orders, feed>>
    /\ UNCHANGED <<stock, stock0, event, response, trace, raises, dups>>

\* Mutant of PaymentStatusWrite: a declined payment marks the order FAILED
\* without a note.
PaymentStatusWrite_silent(i) ==
    /\ Is(i, "PaymentFunction", "paid")
    /\ IF inv[i].seen[1].success
       THEN WriteAndReturn(i, PAYMENT_PROCESSED,
                           Note("Payment processed successfully", 0), "success")
       ELSE WriteAndReturn(i, FAILED, NoNote, "failed")
    /\ UNCHANGED <<stock, stock0, event, response, trace, raises, dups>>

\* payment_service.handler: the status write after update_payment_info
PaymentStatusWrite(i) ==
    /\ Is(i, "PaymentFunction", "paid")
    /\ IF inv[i].seen[1].success
       THEN WriteAndReturn(i, PAYMENT_PROCESSED,
                           Note("Payment processed successfully", 0), "success")
       ELSE WriteAndReturn(i, FAILED,
                           Note("Payment failed: Payment declined by processor",
                                0),
                           "failed")
    /\ UNCHANGED <<stock, stock0, event, response, trace, raises, dups>>

\* order_fulfillment.fulfill_order: one turn of its loop
FulfillItem(i) ==
    /\ Is(i, "FulfillmentFunction", "loaded")
    /\ inv[i].k <= Len(inv[i].order.items)
    /\ LET item == inv[i].order.items[inv[i].k]
           update == update_inventory(item.product_id, item.quantity)
       IN  /\ stock' = update.stock
           /\ inv' = IF update.raised THEN Raise(i)
                     ELSE [inv EXCEPT
                              ![i].k = @ + 1,
                              ![i].seen = Append(@,
                                  [product_id |-> item.product_id,
                                   quantity |-> item.quantity,
                                   success |-> update.success])]
    /\ UNCHANGED <<orders, feed, stock0, event, response, trace, raises, dups>>

FailedUpdates(updates) == {k \in 1..Len(updates) : ~updates[k].success}

\* order_fulfillment.handler once fulfill_order returned
FulfillWrite(i) ==
    /\ Is(i, "FulfillmentFunction", "loaded")
    /\ inv[i].k > Len(inv[i].order.items)
    /\ IF \A k \in 1..Len(inv[i].seen) : inv[i].seen[k].success
       THEN WriteAndReturn(i, FULFILLED, Note("Order fulfilled. Tracking ID", 0),
                           "success")
       ELSE WriteAndReturn(i, FAILED,
                           Note("Fulfillment failed: Failed to update inventory",
                                Cardinality(FailedUpdates(inv[i].seen))),
                           "failed")
    /\ UNCHANGED <<stock, stock0, event, response, trace, raises, dups>>

\* What send_notification may return: its try block ends in success, and any
\* exception of the channel inside it is turned into a failure result.
SendOutcomes == {TRUE, FALSE}

\* Mutant of NotificationSend: the success branch rewrites FULFILLED.
NotificationSend_fulfilled(i) ==
    /\ Is(i, "NotificationFunction", "loaded")
    /\ \E sent \in SendOutcomes :
          IF sent
          THEN WriteAndReturn(i, FULFILLED,
                              Note("Notification sent to customer", 0),
                              "success")
          ELSE /\ inv' = Return(i, "failed", "None")
               /\ UNCHANGED <<orders, feed>>
    /\ UNCHANGED <<stock, stock0, event, response, trace, raises, dups>>

\* Mutant of NotificationSend: a send that fails marks the order FAILED.
NotificationSend_failed(i) ==
    /\ Is(i, "NotificationFunction", "loaded")
    /\ \E sent \in SendOutcomes :
          IF sent
          THEN WriteAndReturn(i, COMPLETED,
                              Note("Notification sent to customer", 0),
                              "success")
          ELSE WriteAndReturn(i, FAILED, Note("Notification failed", 0),
                              "failed")
    /\ UNCHANGED <<stock, stock0, event, response, trace, raises, dups>>

\* notification_service.handler after the load
NotificationSend(i) ==
    /\ Is(i, "NotificationFunction", "loaded")
    /\ \E sent \in SendOutcomes :
          IF sent
          THEN WriteAndReturn(i, COMPLETED,
                              Note("Notification sent to customer", 0),
                              "success")
          ELSE /\ inv' = Return(i, "failed", "None")
               /\ UNCHANGED <<orders, feed>>
    /\ UNCHANGED <<stock, stock0, event, response, trace, raises, dups>>

\* Mutant of Except: notification_service marks the order FAILED as well.
Except_all(i) ==
    /\ i \in 1..Len(inv)
    /\ inv[i].pc = "except"
    /\ IF Exists(inv[i].order_id)
       THEN /\ Commit(update_order_status(inv[i].order_id, FAILED,
                          Note("error: " \o inv[i].fn, 0)))
            /\ inv' = [inv EXCEPT ![i].pc = "raised", ![i].result = Raised,
                                  ![i].wrote = Append(@, FAILED)]
       ELSE /\ inv' = [inv EXCEPT ![i].pc = "raised", ![i].result = Raised]
            /\ UNCHANGED <<orders, feed>>
    /\ UNCHANGED <<stock, stock0, event, response, trace, raises, dups>>

\* Mutant of Except: the FAILED write does not look the order up first, and
\* update_item creates the item it does not find.
Except_upsert(i) ==
    /\ i \in 1..Len(inv)
    /\ inv[i].pc = "except"
    /\ IF inv[i].fn = "NotificationFunction"
       THEN /\ inv' = [inv EXCEPT ![i].pc = "raised", ![i].result = Raised]
            /\ UNCHANGED <<orders, feed>>
       ELSE /\ orders' = [orders EXCEPT ![inv[i].order_id] =
                             IF Exists(inv[i].order_id)
                             THEN update_order_status(inv[i].order_id, FAILED,
                                      Note("error: " \o inv[i].fn, 0))
                             ELSE [order_id |-> inv[i].order_id,
                                   status |-> FAILED, updated_at |-> Now]]
            /\ feed' = feed
            /\ inv' = [inv EXCEPT ![i].pc = "raised", ![i].result = Raised,
                                  ![i].wrote = Append(@, FAILED)]
    /\ UNCHANGED <<stock, stock0, event, response, trace, raises, dups>>

\* The except clause of a handler: the best-effort FAILED write (not in
\* notification_service), whose own error is swallowed, then raise.
Except(i) ==
    /\ i \in 1..Len(inv)
    /\ inv[i].pc = "except"
    /\ IF inv[i].fn # "NotificationFunction" /\ Exists(inv[i].order_id)
       THEN /\ Commit(update_order_status(inv[i].order_id, FAILED,
                          Note("error: " \o inv[i].fn, 0)))
            /\ inv' = [inv EXCEPT ![i].pc = "raised", ![i].result = Raised,
                                  ![i].wrote = Append(@, FAILED)]
       ELSE /\ inv' = [inv EXCEPT ![i].pc = "raised", ![i].result = Raised]
            /\ UNCHANGED <<orders, feed>>
    /\ UNCHANGED <<stock, stock0, event, response, trace, raises, dups>>

----------------------------------------------------------------------------
(* The asynchronous invocation transport *)

\* An invocation that raised is invoked again.
TransportRetry(i) ==
    /\ i \in 1..Len(inv)
    /\ inv[i].pc = "raised"
    /\ inv[i].attempt < MaxRetry
    /\ inv' = [inv EXCEPT ![i] = [Invocation(inv[i].fn, inv[i].order_id)
                                     EXCEPT !.attempt = inv[i].attempt + 1]]
    /\ UNCHANGED <<orders, stock, feed, stock0, event, response, trace, raises, dups>>

\* At-least-once delivery: an invocation is delivered a second time.
TransportDuplicate(i) ==
    /\ i \in 1..Len(inv)
    /\ Len(inv) < MaxInv
    /\ dups < MaxDup
    /\ dups' = dups + 1
    /\ inv' = Append(inv, Invocation(inv[i].fn, inv[i].order_id))
    /\ UNCHANGED <<orders, stock, feed, stock0, event, response, trace, raises>>

----------------------------------------------------------------------------
(* The pipeline *)

NoResponse == [none |-> TRUE]
\* What inventory_table may hold for a product when a run begins.
InventoryItems(product_id) ==
    {NoItem} \cup {InventoryItem(product_id, n) : n \in 0..MaxStock}

\* The orders of the pipeline's runs: "ord-3" is charged, "ord-1" declined.
PipelineIds == {"ord-3", "ord-1"}

Init ==
    /\ orders = [o \in PipelineIds |-> NoItem]
    /\ stock \in {s \in [Products -> UNION {InventoryItems(p) : p \in Products}] :
                     \A p \in Products : s[p] \in InventoryItems(p)}
    /\ stock0 = stock
    /\ feed = <<>>
    /\ inv = <<>>
    /\ event = <<>>
    /\ response = NoResponse
    /\ trace = <<>>
    /\ raises = {}
    /\ dups = 0

Step(i) ==
    \/ GetOrder(i)
    \/ ValidatorWrite(i)
    \/ InventoryCheck(i)
    \/ InventoryWrite(i)
    \/ PaymentInfo(i)
    \/ PaymentStatusWrite(i)
    \/ FulfillItem(i)
    \/ FulfillWrite(i)
    \/ NotificationSend(i)
    \/ Except(i)

\* The self-clocking pipeline: no redelivery by the feed or the transport.
NextSelfClocked ==
    \/ \E o \in PipelineIds, body \in Bodies : CreateOrder(o, body)
    \/ StreamDeliver
    \/ \E i \in 1..MaxInv : Step(i)

SpecSelfClocked == Init /\ [][NextSelfClocked]_vars

Next ==
    \/ \E o \in PipelineIds, body \in Bodies : CreateOrder(o, body)
    \/ StreamDeliver
    \/ StreamRedeliver
    \/ \E i \in 1..MaxInv : Step(i)
    \/ \E i \in 1..MaxInv : TransportRetry(i)
    \/ \E i \in 1..MaxInv : TransportDuplicate(i)

Spec == Init /\ [][Next]_vars

----------------------------------------------------------------------------
(* The stream processor alone, on batches drawn from a set of records *)

MaxBatch == 2       \* records in a batch

\* A post-mutation snapshot with order_id "ord-3" and the given status
\* attribute; extra: the snapshot also carries other attributes of the order.
Image(statusAttr, extra) ==
    IF extra
    THEN [order_id |-> [S |-> "ord-3"], status |-> statusAttr,
          notes |-> [S |-> "Order validated successfully"],
          payment |-> [M |-> [status |-> [S |-> "PENDING"]]]]
    ELSE [order_id |-> [S |-> "ord-3"], status |-> statusAttr]

Change(eventName, image) ==
    [eventName |-> eventName, dynamodb |-> [NewImage |-> image]]

\* INSERT and MODIFY records as the feed emits them.
FeedRecords ==
    {Change(e, Image([S |-> s], x)) :
        e \in {"INSERT", "MODIFY"}, s \in OrderStatus, x \in BOOLEAN}

\* Records the handler must cope with: other kinds, missing keys, snapshots
\* without order_id or status, values of other types.
OddRecords ==
    {[dynamodb |-> [NewImage |-> Image([S |-> RECEIVED], FALSE)]],
     [eventName |-> "INSERT"],
     [eventName |-> "REMOVE", dynamodb |-> [Keys |-> "ord-3"]],
     Change("REMOVE", Image([S |-> RECEIVED], FALSE)),
     [eventName |-> "MODIFY", dynamodb |-> [Keys |-> "ord-3"]],
     Change("MODIFY", [status |-> [S |-> RECEIVED]]),
     Change("MODIFY", [order_id |-> [S |-> "ord-3"]]),
     Change("MODIFY", [notes |-> [S |-> "x"]]),
     Change("INSERT", [order_id |-> [S |-> ""], status |-> [S |-> RECEIVED]]),
     Change("INSERT", Image([S |-> ""], FALSE)),
     Change("INSERT", Image([N |-> 1], FALSE)),
     Change("INSERT", Image([NULL |-> TRUE], FALSE)),
     Change("INSERT", Image([M |-> [S |-> [S |-> RECEIVED]]], FALSE)),
     Change("INSERT", Image([S |-> "SHIPPED"], TRUE))}

DispatchRecords == FeedRecords \cup OddRecords

Batches == UNION {[1..n -> DispatchRecords] : n \in 0..MaxBatch}

InitDispatch ==
    /\ orders = [o \in OrderIds |-> NoItem]
    /\ stock = [p \in Products |-> NoItem]
    /\ stock0 = stock
    /\ feed = <<>>
    /\ inv = <<>>
    /\ event \in Batches
    /\ response = NoResponse
    /\ trace = <<>>
    /\ raises = {}
    /\ dups = 0

\* One run of the handler on the batch; lambda_client.invoke raises at the
\* positions of raising.
DispatchBatch ==
    /\ response = NoResponse
    /\ \E raising \in SUBSET (1..Len(event)) :
          LET run == handler(event, raising) IN
          /\ response' = run.response
          /\ trace' = run.trace
          /\ raises' = raising
    /\ UNCHANGED <<orders, stock, stock0, feed, inv, event, dups>>

NextDispatch == DispatchBatch

SpecDispatch == InitDispatch /\ [][NextDispatch]_vars

----------------------------------------------------------------------------
(* Concurrent Fulfill calls on one product *)

MaxCalls == 2       \* concurrent Fulfill calls, one per order
MaxQty == 2         \* quantity each order requests
MaxAvail == 3       \* stock of the product

PaidOrder(order_id, quantity) ==
    [NewOrder(order_id,
              [BodyOne EXCEPT !.items = <<[product_id |-> "product-1",
                                           quantity |-> quantity,
                                           unit_price |-> 1999]>>])
        EXCEPT !.status = PAYMENT_PROCESSED,
               !.notes = Note("Payment processed successfully", 0),
               !.payment.status = "COMPLETED",
               !.payment.transaction_id = 1,
               !.payment.amount = 1999 * quantity]

InitFulfill ==
    \E n \in 2..MaxCalls, q \in 1..MaxQty, a \in 0..MaxAvail :
        /\ n * q > a
        /\ orders = [o \in {OrderIdList[k] : k \in 1..n} |-> PaidOrder(o, q)]
        /\ stock = [p \in Products |->
                       IF p = "product-1" THEN InventoryItem(p, a) ELSE NoItem]
        /\ stock0 = stock
        /\ feed = <<>>
        /\ inv = [k \in 1..n |->
                     Invocation("FulfillmentFunction", OrderIdList[k])]
        /\ event = <<>>
        /\ response = NoResponse
        /\ trace = <<>>
        /\ raises = {}
        /\ dups = 0

NextFulfill ==
    \E i \in 1..MaxCalls :
        \/ GetOrder(i)
        \/ FulfillItem(i)
        \/ FulfillWrite(i)
        \/ Except(i)
        \/ TransportRetry(i)

SpecFulfill == InitFulfill /\ [][NextFulfill]_vars

----------------------------------------------------------------------------
(* Properties *)

Stored == {o \in DOMAIN orders : Exists(o)}
Runs == 1..Len(inv)

\* A step in which the order keeps existing and its status is rewritten to
\* another value.
StatusChanges(o) ==
    /\ Exists(o)
    /\ orders'[o] # NoItem
    /\ orders'[o].status # orders[o].status

\* C1: every write to an order's status moves it forward along RECEIVED ->
\* VALIDATED -> INVENTORY_CHECKED -> PAYMENT_PROCESSED -> FULFILLED ->
\* COMPLETED or sets it to FAILED; no write sets a status earlier in the
\* chain than the one it replaces.
C1_StatusNeverRegresses ==
    [][\A o \in DOMAIN orders :
          StatusChanges(o) =>
              \/ orders'[o].status = FAILED
              \/ Rank(orders'[o].status) > Rank(orders[o].status)]_vars

\* C2: FAILED is absorbing: once an order's status is FAILED, no step
\* changes it to another status.
C2_FailedIsAbsorbing ==
    [][\A o \in DOMAIN orders :
          (Exists(o) /\ orders[o].status = FAILED /\ orders'[o] # NoItem)
              => orders'[o].status = FAILED]_vars

\* C4: with no redelivery, two step-handler invocations for the same order
\* are never running at the same time.
C4_OneStepInFlightPerOrder ==
    \A i, j \in Runs :
        (i # j /\ Running(i) /\ Running(j))
            => inv[i].order_id # inv[j].order_id

\* The invocation loaded an order whose status was already past the status
\* its step writes on success.
PastTarget(i) ==
    /\ Running(i)
    /\ inv[i].order # NoItem
    /\ Rank(inv[i].order.status) > Rank(SuccessStatus(inv[i].fn))

\* C7: a step handler re-run for an order already past the step's success
\* status leaves the order's status, its payment fields and all stock as
\* they were.
C7_RerunChangesNothing ==
    [][\A i \in Runs :
          (PastTarget(i) /\ inv'[i] # inv[i])
              => /\ stock' = stock
                 /\ orders'[inv[i].order_id] # NoItem
                 /\ orders'[inv[i].order_id].status
                        = orders[inv[i].order_id].status
                 /\ orders'[inv[i].order_id].payment
                        = orders[inv[i].order_id].payment]_vars

\* The step the dispatch table binds to a status ("None": no step).
BoundStep(status) ==
    CASE status = RECEIVED -> "ValidatorFunction"
      [] status = VALIDATED -> "InventoryFunction"
      [] status = INVENTORY_CHECKED -> "PaymentFunction"
      [] status = PAYMENT_PROCESSED -> "FulfillmentFunction"
      [] status = FULFILLED -> "NotificationFunction"
      [] status = COMPLETED -> "None"
      [] status = FAILED -> "None"

\* An INSERT or MODIFY record whose snapshot carries an order_id and one of
\* the seven statuses.
Carries(record) ==
    /\ "eventName" \in DOMAIN record
    /\ record.eventName \in {"INSERT", "MODIFY"}
    /\ "dynamodb" \in DOMAIN record
    /\ "NewImage" \in DOMAIN record.dynamodb
    /\ {"order_id", "status"} \subseteq DOMAIN record.dynamodb.NewImage
    /\ "S" \in DOMAIN record.dynamodb.NewImage.order_id
    /\ record.dynamodb.NewImage.order_id.S # ""
    /\ "S" \in DOMAIN record.dynamodb.NewImage.status
    /\ record.dynamodb.NewImage.status.S \in OrderStatus

StatusOf(record) == record.dynamodb.NewImage.status.S
OrderIdOf(record) == record.dynamodb.NewImage.order_id.S

\* The asynchronous invocation of a step with payload {order_id}.
Trigger(step, order_id) ==
    [FunctionName |-> <<stack_name, step>>, InvocationType |-> "Event",
     Payload |-> [order_id |-> PyStr(order_id)]]

Dispatched == response # NoResponse

\* C3: for an INSERT or MODIFY record carrying order_id and status S the
\* dispatcher triggers exactly the step bound to S with payload {order_id}
\* (when the invocation itself does not raise), and no step for COMPLETED and
\* FAILED, whatever else the record holds.
C3_DispatchFollowsStatus ==
    Dispatched =>
        \A k \in 1..Len(event) :
            Carries(event[k]) =>
                /\ k <= Len(trace)
                /\ trace[k].call =
                       IF BoundStep(StatusOf(event[k])) = "None" \/ k \in raises
                       THEN <<>>
                       ELSE <<Trigger(BoundStep(StatusOf(event[k])),
                                      OrderIdOf(event[k]))>>

\* Both kinds of record were dispatched in one batch: a FULFILLED snapshot
\* with other attributes triggered Notify, a terminal one triggered nothing.
C3_Witness ==
    /\ Dispatched
    /\ \E k, j \in 1..Len(event) :
          /\ event[k] = Change("MODIFY", Image([S |-> FULFILLED], TRUE))
          /\ trace[k].call = <<Trigger("NotificationFunction", "ord-3")>>
          /\ Carries(event[j])
          /\ StatusOf(event[j]) \in {COMPLETED, FAILED}
          /\ trace[j].call = <<>>

\* Processing the record fails: a key the loop reads is missing, or the
\* invocation of the bound step raises.
Fails(record, invokeRaises) ==
    \/ "eventName" \notin DOMAIN record
    \/ /\ record.eventName \in {"INSERT", "MODIFY"}
       /\ "dynamodb" \notin DOMAIN record
    \/ /\ Carries(record)
       /\ BoundStep(StatusOf(record)) # "None"
       /\ invokeRaises

\* C8: the dispatcher completes the whole batch: a record whose processing
\* fails gets an error entry, every later record is still processed, and the
\* handler returns a result instead of raising.
C8_BatchAlwaysCompletes ==
    Dispatched =>
        /\ response # Raised
        /\ Len(trace) = Len(event)
        /\ response.processed_count = Len(response.results)
        /\ Len(response.results)
               = Cardinality({k \in 1..Len(trace) : trace[k].kind # "skip"})
        /\ \A k \in 1..Len(event) :
              Fails(event[k], k \in raises) =>
                  /\ trace[k].kind # "skip"
                  /\ "error" \in DOMAIN trace[k].entry
                  /\ \E r \in 1..Len(response.results) :
                        response.results[r] = trace[k].entry
                  /\ \A j \in (k + 1)..Len(event) :
                        (Carries(event[j]) /\ j \notin raises
                           /\ BoundStep(StatusOf(event[j])) # "None")
                            => trace[j].call # <<>>

\* A record failed and the record after it still triggered its step.
C8_Witness ==
    /\ Dispatched
    /\ Len(event) = 2
    /\ Fails(event[1], 1 \in raises)
    /\ Carries(event[2])
    /\ trace[2].call # <<>>

\* The Fulfill calls that ended with a success result.
Succeeded ==
    {i \in Runs : inv[i].fn = "FulfillmentFunction"
                  /\ inv[i].result.status = "success"}

Requested == orders[OrderIdList[1]].items[1].quantity
Available == stock0["product-1"].stock_quantity

\* C5: of N concurrent Fulfill calls that each request q of a product whose
\* stock is a, with N*q > a, at most floor(a/q) succeed.
C5_AtMostFloorSucceed ==
    /\ Cardinality(Succeeded) <= Available \div Requested
    /\ Cardinality({o \in Stored : orders[o].status = FULFILLED})
           <= Available \div Requested

\* Every call ended, floor(a/q) >= 1 of them succeeded and one was refused.
C5_Witness ==
    /\ \A i \in Runs : inv[i].pc \in {"done", "raised"}
    /\ Cardinality(Succeeded) = Available \div Requested
    /\ Cardinality(Succeeded) >= 1
    /\ \E i \in Runs : inv[i].pc = "raised"

\* C6: the stock_quantity of every inventory record is >= 0 in every
\* reachable state.
C6_StockNeverNegative ==
    \A p \in Products : stock[p] # NoItem => stock[p].stock_quantity >= 0

\* A product was sold out and a further decrement of it was refused.
C6_Witness ==
    \E p \in Products, i \in Runs :
        /\ stock0[p] # NoItem
        /\ stock0[p].stock_quantity > 0
        /\ stock[p].stock_quantity = 0
        /\ inv[i].fn = "FulfillmentFunction"
        /\ inv[i].pc = "except"
        /\ inv[i].order.items[inv[i].k].product_id = p

\* C9: a step handler that succeeds writes exactly its own success status
\* and returns status "success" with the order_id.
C9_SuccessWritesOwnStatus ==
    [][\A i \in Runs :
          (inv[i].result = NoResult /\ inv'[i].result.status = "success")
              => /\ inv'[i].result.order_id = inv[i].order_id
                 /\ inv'[i].wrote = <<SuccessStatus(inv[i].fn)>>
                 /\ orders'[inv[i].order_id].status
                        = SuccessStatus(inv[i].fn)]_vars

\* Each of the five steps has returned success for the order.
C9_Witness ==
    \A fn \in StepFunctions :
        \E i \in Runs : /\ inv[i].fn = fn
                        /\ inv[i].result = Result("success", "ord-3")
                        /\ inv[i].wrote = <<SuccessStatus(fn)>>

\* Every item of the order was found in inventory with enough stock when
\* CheckInventory read it.
AllInStock(i) ==
    /\ Len(inv[i].seen) = Len(orders[inv[i].order_id].items)
    /\ \A k \in 1..Len(inv[i].seen) :
          /\ inv[i].seen[k].recorded # NoItem
          /\ inv[i].seen[k].recorded.stock_quantity
                 >= orders[inv[i].order_id].items[k].quantity

\* C10: CheckInventory moves the order to INVENTORY_CHECKED if and only if
\* every item's product exists in inventory with recorded stock >= the
\* requested quantity; otherwise the order becomes FAILED.
C10_InventoryConjunction ==
    [][\A i \in Runs :
          /\ (Is(i, "InventoryFunction", "loaded") /\ inv'[i].k = inv[i].k + 1)
                => /\ Len(inv'[i].seen) = inv[i].k
                   /\ inv'[i].seen[inv[i].k].recorded
                          = stock[orders[inv[i].order_id].items[inv[i].k]
                                      .product_id]
          /\ (Is(i, "InventoryFunction", "loaded") /\ inv'[i].pc = "done")
                => /\ AllInStock(i)
                       <=> orders'[inv[i].order_id].status = INVENTORY_CHECKED
                   /\ ~AllInStock(i)
                       <=> orders'[inv[i].order_id].status = FAILED
                   /\ AllInStock(i) <=> inv'[i].result.status = "success"]_vars

\* A check of a two-item order failed on one item alone.
C10_Witness ==
    \E i \in Runs :
        /\ inv[i].fn = "InventoryFunction"
        /\ inv[i].result.status = "failed"
        /\ Len(inv[i].seen) = 2
        /\ inv[i].seen[1].available
        /\ ~inv[i].seen[2].available
        /\ orders[inv[i].order_id].status = FAILED

----------------------------------------------------------------------------
(* Validate alone, on orders whose fields are drawn from small sets *)

Emails ==
    {<<>>, <<"a", "@", "b", ".", "c">>, <<"a", "b", ".", "c">>,
     <<"a", "@", "b">>, <<"a", "b">>}
Names == {"", "Test Customer"}
\* shipping_address is a Dict[str, str]: any of its keys may be absent or "".
Addresses ==
    UNION {[S -> {"", "x"}] :
              S \in SUBSET {"street", "city", "postal_code", "country"}}
ItemLists == {<<>>, BodyOne.items}
PaymentMethods == {"", "credit_card"}

ValidateBodies ==
    {[customer |-> [customer_id |-> "cust-12345", email |-> e, name |-> n],
      shipping_address |-> a, items |-> it,
      payment |-> [payment_method |-> pm]] :
        e \in Emails, n \in Names, a \in Addresses, it \in ItemLists,
        pm \in PaymentMethods}

InitValidate ==
    /\ orders \in {[o \in {"ord-3"} |-> NewOrder(o, body)] :
                      body \in ValidateBodies}
    /\ stock = [p \in Products |-> NoItem]
    /\ stock0 = stock
    /\ feed = <<>>
    /\ inv = <<Invocation("ValidatorFunction", "ord-3")>>
    /\ event = <<>>
    /\ response = NoResponse
    /\ trace = <<>>
    /\ raises = {}
    /\ dups = 0

NextValidate == GetOrder(1) \/ ValidatorWrite(1)

SpecValidate == InitValidate /\ [][NextValidate]_vars

\* The order has every field the validation asks for.
WellFormed(order) ==
    /\ order.customer.email # <<>>
    /\ order.customer.name # ""
    /\ \A f \in {"street", "city", "postal_code", "country"} :
          f \in DOMAIN order.shipping_address /\ order.shipping_address[f] # ""
    /\ Len(order.items) >= 1
    /\ order.payment.payment_method # ""
    /\ \E k \in DOMAIN order.customer.email : order.customer.email[k] = "@"
    /\ \E k \in DOMAIN order.customer.email : order.customer.email[k] = "."

\* The reasons that name a category in which the order offends.
Reasons(order) ==
    (IF order.customer.email = <<>> \/ order.customer.name = ""
     THEN {"Customer information is incomplete"} ELSE {})
    \cup {"Shipping address is missing " \o f : f \in
            {g \in {"street", "city", "postal_code", "country"} :
                \/ g \notin DOMAIN order.shipping_address
                \/ order.shipping_address[g] = ""}}
    \cup (IF order.items = <<>> THEN {"Order has no items"} ELSE {})
    \cup (IF order.payment.payment_method = ""
          THEN {"Payment method is required"} ELSE {})
    \cup (IF \A k \in DOMAIN order.customer.email :
                order.customer.email[k] # "@"
          THEN {"Invalid email format"} ELSE {})
    \cup (IF \A k \in DOMAIN order.customer.email :
                order.customer.email[k] # "."
          THEN {"Invalid email format"} ELSE {})

\* C11: Validate returns success if and only if the order is well formed
\* (email and name non-empty, the four address fields present and non-empty,
\* at least one item, a payment method, '@' and '.' in the email); otherwise
\* it returns failure with a reason that names a category the order misses.
C11_ValidateIffWellFormed ==
    \A i \in Runs :
        (inv[i].fn = "ValidatorFunction" /\ inv[i].pc = "done")
            => /\ inv[i].result.status = "success" <=> WellFormed(inv[i].order)
               /\ inv[i].result.status = "failed" <=> ~WellFormed(inv[i].order)
               /\ WellFormed(inv[i].order)
                     => orders[inv[i].order_id].status = VALIDATED
               /\ ~WellFormed(inv[i].order)
                     => /\ orders[inv[i].order_id].status = FAILED
                        /\ orders[inv[i].order_id].notes.text \in
                              {"Validation failed: " \o r :
                                  r \in Reasons(inv[i].order)}

\* Validate failed an order whose only fault is an address field that is
\* present but empty, and passed a well-formed order.
C11_Witness ==
    \E i \in Runs :
        /\ inv[i].fn = "ValidatorFunction"
        /\ inv[i].pc = "done"
        /\ inv[i].result.status = "failed"
        /\ Reasons(inv[i].order) = {"Shipping address is missing country"}
        /\ "country" \in DOMAIN inv[i].order.shipping_address
        /\ inv[i].order.shipping_address["country"] = ""
        /\ orders[inv[i].order_id].notes.text
               = "Validation failed: Shipping address is missing country"

\* C12: a Notify invocation whose send fails writes nothing (the order keeps
\* the status it had, FULFILLED) and returns a failure result; a status
\* becomes COMPLETED only in the step of a Notify invocation that succeeds.
C12_NotifyFailureKeepsStatus ==
    [][/\ \A i \in Runs :
             (Is(i, "NotificationFunction", "loaded") /\ inv'[i] # inv[i])
                 => \/ /\ inv'[i].result = Result("failed", inv[i].order_id)
                       /\ inv'[i].wrote = <<>>
                       /\ orders' = orders
                       /\ feed' = feed
                    \/ /\ inv'[i].result = Result("success", inv[i].order_id)
                       /\ orders'[inv[i].order_id].status = COMPLETED
       /\ \A o \in DOMAIN orders :
             (StatusChanges(o) /\ orders'[o].status = COMPLETED)
                 => \E i \in Runs :
                       /\ Is(i, "NotificationFunction", "loaded")
                       /\ inv[i].order_id = o
                       /\ inv'[i].result.status = "success"]_vars

\* A Notify invocation returned failure and the order is still FULFILLED.
C12_Witness ==
    \E i \in Runs :
        /\ inv[i].fn = "NotificationFunction"
        /\ inv[i].pc = "done"
        /\ inv[i].result.status = "failed"
        /\ inv[i].order.status = FULFILLED
        /\ orders[inv[i].order_id].status = FULFILLED
        /\ \A j \in Runs : inv[j].fn = "NotificationFunction" => j = i

----------------------------------------------------------------------------
(* One order end to end: the feed, the dispatcher and the step handlers *)

MaxRun == 7         \* invocations of step functions in one run
MaxOnHand == 2      \* stock of each product when the order is placed

InitEndToEnd ==
    /\ orders = [o \in {"ord-3"} |-> NoItem]
    /\ stock \in [Products -> {InventoryItem(p, n) :
                                  p \in Products, n \in 1..MaxOnHand}]
    /\ \A p \in Products : stock[p].product_id = p
    /\ stock0 = stock
    /\ feed = <<>>
    /\ inv = <<>>
    /\ event = <<>>
    /\ response = NoResponse
    /\ trace = <<>>
    /\ raises = {}
    /\ dups = 0

NextEndToEnd ==
    \/ \E body \in {BodyOne, BodyTwo} : CreateOrder("ord-3", body)
    \/ StreamDeliverUpTo(MaxRun)
    \/ \E i \in 1..MaxRun : Step(i)

SpecEndToEnd == InitEndToEnd /\ [][NextEndToEnd]_vars

\* Nothing is left to do: the feed is drained and every invocation ended.
Settled ==
    /\ feed = <<>>
    /\ inv # <<>>
    /\ \A i \in Runs : inv[i].pc \in {"done", "raised"}

\* How many units of product p the order asks for.
RECURSIVE OrderedFrom(_, _, _)
OrderedFrom(items, p, k) ==
    IF k > Len(items) THEN 0
    ELSE (IF items[k].product_id = p THEN items[k].quantity ELSE 0)
         + OrderedFrom(items, p, k + 1)
Ordered(order, p) == OrderedFrom(order.items, p, 1)

\* C13: a valid order whose items are all in stock and whose payment
\* succeeds (and whose notification is sent), processed end to end with no
\* redelivery and no other order, ends with status COMPLETED and with the stock of each product reduced by
\* exactly the ordered quantity.
C13_EndToEndCompletes ==
    (Settled /\ \A i \in Runs : inv[i].fn = "NotificationFunction"
                                    => inv[i].result.status = "success")
        => /\ orders["ord-3"].status = COMPLETED
           /\ \A p \in Products :
                 stock[p].stock_quantity
                     = stock0[p].stock_quantity - Ordered(orders["ord-3"], p)

----------------------------------------------------------------------------
(* update_order_status and update_payment_info on one order, in any order *)

\* The two calls: the arguments of each are drawn from small sets.
StatusUpdates ==
    {[op |-> "status", status |-> s, notes |-> n] :
        s \in OrderStatus,
        n \in {NoNote, Note("Payment processed successfully", 0)}}
PaymentUpdates ==
    {[op |-> "payment", transaction_id |-> t, status |-> s, amount |-> a] :
        t \in {NoTx, 1}, s \in {"COMPLETED", "FAILED"},
        a \in {NoAmount, 1999}}

InitUpdates ==
    /\ orders = [o \in {"ord-3"} |-> NewOrder(o, BodyOne)]
    /\ stock = [p \in Products |-> NoItem]
    /\ stock0 = stock
    /\ feed = <<>>
    /\ inv = <<>>
    /\ event \in {<<s, p>> : s \in StatusUpdates, p \in PaymentUpdates}
    /\ response = NoResponse
    /\ trace = <<>>
    /\ raises = {}
    /\ dups = 0

\* The k-th call runs: its update_item is one atomic write of the item.
ApplyUpdate(k) ==
    /\ k \in 1..Len(event)
    /\ \A j \in 1..Len(trace) : trace[j] # k
    /\ trace' = Append(trace, k)
    /\ IF event[k].op = "status"
       THEN Commit(update_order_status("ord-3", event[k].status,
                                       event[k].notes))
       ELSE Commit(update_payment_info("ord-3", event[k].transaction_id,
                                       event[k].status, event[k].amount))
    /\ UNCHANGED <<stock, stock0, inv, event, response, raises, dups>>

NextUpdates == \E k \in 1..2 : ApplyUpdate(k)

SpecUpdates == InitUpdates /\ [][NextUpdates]_vars

\* The order before the two calls.
Before == NewOrder("ord-3", BodyOne)

\* What the two calls ask for, whatever their order.
AfterBoth ==
    [Before EXCEPT
        !.status = event[1].status,
        !.notes = IF event[1].notes # NoNote THEN event[1].notes ELSE @,
        !.payment.status = event[2].status,
        !.payment.transaction_id =
            IF event[2].transaction_id # NoTx
            THEN event[2].transaction_id ELSE @,
        !.payment.amount =
            IF event[2].amount # NoAmount THEN event[2].amount ELSE @]

\* C14 as stated: once both updates ran, in either order, the record has the
\* status and notes of the status update, the payment fields of the payment
\* update, and every other field as it was.
C14_UpdatesDoNotClobber ==
    Len(trace) = 2 => orders["ord-3"] = AfterBoth

\* C14, amended: as above, except that updated_at, which both updates set,
\* holds the instant of a write instead of its old value.
C14_UpdatesDoNotClobberButStamp ==
    Len(trace) = 2
        => /\ orders["ord-3"] = [AfterBoth EXCEPT !.updated_at = Now]
           /\ orders["ord-3"].updated_at # Before.updated_at

\* The payment update ran first and the status update second, each with all
\* its optional arguments.
C14_Witness ==
    /\ trace = <<2, 1>>
    /\ event[1].notes # NoNote
    /\ event[2].transaction_id # NoTx
    /\ event[2].amount # NoAmount
    /\ orders["ord-3"].status = event[1].status
    /\ orders["ord-3"].payment.transaction_id = event[2].transaction_id

----------------------------------------------------------------------------
(* Failures and faults of the step handlers *)

\* The conditional decrement of the item the Fulfill invocation is at would
\* be refused: the product has no item, or too little stock.
DecrementRefused(i) ==
    /\ Is(i, "FulfillmentFunction", "loaded")
    /\ inv[i].k <= Len(inv[i].order.items)
    /\ LET item == inv[i].order.items[inv[i].k] IN
       \/ stock[item.product_id] = NoItem
       \/ stock[item.product_id].stock_quantity < item.quantity

\* The invocation is about to act on a business failure: an invalid order,
\* an unavailable item, a declined payment, a refused decrement.
BusinessFailure(i) ==
    \/ Is(i, "ValidatorFunction", "loaded") /\ ~WellFormed(inv[i].order)
    \/ /\ Is(i, "InventoryFunction", "loaded")
       /\ inv[i].k > Len(inv[i].order.items)
       /\ \E k \in 1..Len(inv[i].seen) : ~inv[i].seen[k].available
    \/ Is(i, "PaymentFunction", "paid") /\ ~inv[i].seen[1].success
    \/ DecrementRefused(i)

\* C15: on a business failure in Validate, CheckInventory, ProcessPayment or
\* Fulfill the handler does not raise (it never enters its except clause);
\* when it returns, the order is FAILED with a note and the result has
\* status "failed".
C15_BusinessFailureReturnsFailed ==
    [][\A i \in Runs :
          (BusinessFailure(i) /\ Exists(inv[i].order_id) /\ inv'[i] # inv[i])
              => /\ inv'[i].pc \notin {"except", "raised"}
                 /\ inv'[i].pc = "done"
                       => /\ inv'[i].result
                                 = Result("failed", inv[i].order_id)
                          /\ orders'[inv[i].order_id].status = FAILED
                          /\ orders'[inv[i].order_id].notes # NoNote]_vars

\* A call of the try block on orders_table or inventory_table raises
\* (get_order, update_order_status, update_payment_info, update_inventory);
\* check_inventory, which catches its own faults, is not such a call.
StoreFault(i) ==
    /\ i \in 1..Len(inv)
    /\ inv[i].pc \in {"queued", "loaded", "paid"}
    /\ ~(/\ Is(i, "InventoryFunction", "loaded")
         /\ inv[i].k <= Len(inv[i].order.items))
    /\ inv' = Raise(i)
    /\ UNCHANGED <<orders, stock, feed, stock0, event, response, trace, raises, dups>>

\* The status at which the dispatcher invokes the step function.
TriggerStatus(fn) ==
    CHOOSE s \in OrderStatus : status_to_function(s) = fn

\* One invocation of a step function, for an order that is stored ("ord-3")
\* or for one that is not ("ord-1").
InitFaults ==
    \E fn \in StepFunctions, body \in Bodies, o \in {"ord-3", "ord-1"} :
        /\ orders = [x \in {"ord-3", "ord-1"} |->
                        IF x = "ord-3"
                        THEN [NewOrder(x, body)
                                 EXCEPT !.status = TriggerStatus(fn)]
                        ELSE NoItem]
        /\ stock \in {[p \in Products |-> IF p = "product-1" THEN s ELSE NoItem] :
                         s \in InventoryItems("product-1")}
        /\ stock0 = stock
        /\ feed = <<>>
        /\ inv = <<Invocation(fn, o)>>
        /\ event = <<>>
        /\ response = NoResponse
        /\ trace = <<>>
        /\ raises = {}
        /\ dups = 0

\* What a seen entry records of the stock when the read itself raised.
ReadFault == [fault |-> TRUE]

\* check_inventory when inventory_table.get_item raises: its except clause
\* logs the error and returns False, and check_order_inventory goes on.
InventoryReadFault(i) ==
    /\ Is(i, "InventoryFunction", "loaded")
    /\ inv[i].k <= Len(inv[i].order.items)
    /\ LET item == inv[i].order.items[inv[i].k] IN
       inv' = [inv EXCEPT
                  ![i].k = @ + 1,
                  ![i].seen = Append(@,
                      [product_id |-> item.product_id,
                       quantity |-> item.quantity,
                       recorded |-> ReadFault,
                       available |-> FALSE])]
    /\ UNCHANGED <<orders, stock, feed, stock0, event, response, trace, raises, dups>>

NextFaults == Step(1) \/ StoreFault(1) \/ InventoryReadFault(1)

SpecFaults == InitFaults /\ [][NextFaults]_vars

\* The step of invocation i's except clause: it ends raised.
ExceptStep(i) ==
    /\ inv[i].pc = "except"
    /\ inv'[i] # inv[i]

\* The step marks order o FAILED and changes no other order.
MarksFailed(o) ==
    /\ orders'[o] # NoItem
    /\ orders'[o].status = FAILED
    /\ \A x \in DOMAIN orders : x # o => orders'[x] = orders[x]

C17_MissingOrderRaises ==
    [][\A i \in Runs :
          (~Exists(inv[i].order_id) /\ inv'[i] # inv[i])
              => /\ inv'[i].pc \in {"except", "raised"}
                 /\ inv'[i].pc = "raised" => inv'[i].result = Raised
                 /\ inv'[i].wrote = <<>>
                 /\ orders' = orders
                 /\ feed' = feed
                 /\ stock' = stock]_vars

\* An invocation for an order that is not stored has raised, and the order
\* is still not stored.
C17_Witness ==
    \E i \in Runs :
        /\ inv[i].order_id = "ord-1"
        /\ inv[i].pc = "raised"
        /\ inv[i].order = NoItem
        /\ ~Exists("ord-1")
        /\ Exists("ord-3")

----------------------------------------------------------------------------
(* Payment and status *)

\* C18: an order whose status is PAYMENT_PROCESSED, FULFILLED or COMPLETED
\* has payment.status COMPLETED, a transaction_id and an amount: the payment
\* is recorded before PAYMENT_PROCESSED is written.
C18_PaidBeforeProcessed ==
    \A o \in Stored :
        orders[o].status \in {PAYMENT_PROCESSED, FULFILLED, COMPLETED}
            => /\ orders[o].payment.status = "COMPLETED"
               /\ orders[o].payment.transaction_id # NoTx
               /\ orders[o].payment.amount = orders[o].total_amount

\* An order went through payment twice and is COMPLETED with its payment
\* recorded.
C18_Witness ==
    \E o \in Stored, i, j \in Runs :
        /\ i # j
        /\ inv[i].fn = "PaymentFunction" /\ inv[i].order_id = o
        /\ inv[j].fn = "PaymentFunction" /\ inv[j].order_id = o
        /\ inv[i].result.status = "success"
        /\ inv[j].result.status = "success"
        /\ orders[o].status = COMPLETED
        /\ orders[o].payment.status = "COMPLETED"
        /\ orders[o].payment.transaction_id # NoTx

----------------------------------------------------------------------------
(* Fulfill and its decrements *)

\* The items of the loaded order whose decrement the invocation saw refused.
RefusedItems(i) ==
    {k \in 1..Len(inv[i].order.items) :
        \/ k <= Len(inv[i].seen) /\ ~inv[i].seen[k].success
        \/ k = inv[i].k /\ inv[i].pc \in {"except", "raised"}}

\* C19: Fulfill sets the order to FULFILLED if and only if the decrement
\* succeeded for every item; when a decrement is refused the invocation
\* leaves the stock it already decremented as it is, and the order becomes
\* FAILED with the note "Fulfillment failed: Failed to update inventory for
\* n item(s)", n the number of items whose decrement failed.
C19_FulfillAllOrFailed ==
    [][\A i \in Runs :
          /\ (Is(i, "FulfillmentFunction", "loaded") /\ inv'[i].pc = "done"
                 /\ orders'[inv[i].order_id].status = FULFILLED)
                => /\ Len(inv[i].seen) = Len(inv[i].order.items)
                   /\ \A k \in 1..Len(inv[i].seen) : inv[i].seen[k].success
          /\ (DecrementRefused(i) /\ inv'[i] # inv[i])
                => stock' = stock
          /\ (inv[i].fn = "FulfillmentFunction" /\ inv[i].order # NoItem
                 /\ RefusedItems(i) # {}
                 /\ Exists(inv[i].order_id)
                 /\ inv[i].pc \notin {"done", "raised"}
                 /\ inv'[i].pc \in {"done", "raised"})
                => /\ stock' = stock
                   /\ orders'[inv[i].order_id].status = FAILED
                   /\ orders'[inv[i].order_id].notes
                          = Note("Fulfillment failed: Failed to update inventory",
                                 Cardinality(RefusedItems(i)))]_vars

----------------------------------------------------------------------------
(* POST /orders alone, on request bodies drawn from a set *)

\* body with a "status" key added.
WithStatus(body, status) ==
    [f \in DOMAIN body \cup {"status"} |->
        IF f = "status" THEN status ELSE body[f]]

\* Bodies as a client may send them: with or without a status, with an item
\* of quantity 0, without a payment.
ApiBodies ==
    Bodies
    \cup {WithStatus(b, s) : b \in Bodies, s \in OrderStatus \cup {"SHIPPED"}}
    \cup {[BodyOne EXCEPT !.items = <<[product_id |-> "product-1",
                                       quantity |-> 0,
                                       unit_price |-> 1999]>>],
          [f \in {"customer", "items", "shipping_address"} |-> BodyOne[f]]}

\* create_order answers 400 for a body Order(**body) raises a ValueError on,
\* and stores nothing.
RejectOrder(body) ==
    /\ ~Accepts(body)
    /\ response' = [statusCode |-> 400]
    /\ UNCHANGED <<orders, stock, stock0, feed, inv, event, trace, raises, dups>>

InitCreate ==
    /\ orders = [o \in OrderIds |-> NoItem]
    /\ stock = [p \in Products |-> NoItem]
    /\ stock0 = stock
    /\ feed = <<>>
    /\ inv = <<>>
    /\ event = <<>>
    /\ response = NoResponse
    /\ trace = <<>>
    /\ raises = {}
    /\ dups = 0

NextCreate ==
    \E body \in ApiBodies :
        \/ \E o \in OrderIds : CreateOrder(o, body)
        \/ RejectOrder(body)

SpecCreate == InitCreate /\ [][NextCreate]_vars

\* C20: every order stored by the create operation has status RECEIVED,
\* whatever body the operation accepted.
C20_CreatedAtReceived ==
    \A o \in Stored : orders[o].status = RECEIVED

----------------------------------------------------------------------------
(* total_amount and the items *)

\* The sum of quantity * unit_price over the items, last item first.
ItemSum(items) ==
    LET RECURSIVE UpTo(_)
        UpTo(n) == IF n = 0 THEN 0
                   ELSE UpTo(n - 1) + items[n].quantity * items[n].unit_price
    IN  UpTo(Len(items))

\* C21: in every reachable state the total_amount of a stored order equals
\* the sum of quantity * unit_price over its items, and no step changes the
\* total_amount or the items of an order that is stored.
C21_TotalIsItemSum ==
    /\ [](\A o \in Stored : orders[o].total_amount = ItemSum(orders[o].items))
    /\ [][\A o \in Stored :
             /\ orders'[o] # NoItem
             /\ orders'[o].items = orders[o].items
             /\ orders'[o].total_amount = orders[o].total_amount]_vars

\* A two-item order went through every step and its total is still the sum
\* of its two items.
C21_Witness ==
    \E o \in Stored :
        /\ orders[o].status = COMPLETED
        /\ Len(orders[o].items) = 2
        /\ orders[o].total_amount = 1999 + 4999
        /\ orders[o].payment.amount = orders[o].total_amount

----------------------------------------------------------------------------
(* How often a step is invoked *)

\* The invocations of step function fn for order o.
InvocationsOf(fn, o) ==
    {i \in Runs : inv[i].fn = fn /\ inv[i].order_id = o}

\* C22: with no redelivery by the feed or the transport and no faults, each
\* of the five steps is invoked at most once for an order.
C22_EachStepInvokedOnce ==
    (\A i \in Runs : inv[i].pc \notin {"except", "raised"})
        => \A fn \in StepFunctions, o \in DOMAIN orders :
              Cardinality(InvocationsOf(fn, o)) <= 1

----------------------------------------------------------------------------
(* Records the dispatcher passes over *)

\* A record of another kind than INSERT and MODIFY, an INSERT or MODIFY
\* record without a snapshot, or one whose snapshot lacks order_id or status.
PassedOver(record) ==
    /\ "eventName" \in DOMAIN record
    /\ \/ record.eventName \notin {"INSERT", "MODIFY"}
       \/ /\ "dynamodb" \in DOMAIN record
          /\ \/ "NewImage" \notin DOMAIN record.dynamodb
             \/ "order_id" \notin DOMAIN record.dynamodb.NewImage
             \/ "status" \notin DOMAIN record.dynamodb.NewImage

\* C23: for a record that is neither INSERT nor MODIFY, that has no
\* post-mutation snapshot, or whose snapshot lacks order_id or status, the
\* dispatcher triggers no step and adds no entry to its results.
C23_OddRecordsPassedOver ==
    Dispatched =>
        /\ \A k \in 1..Len(event) :
              PassedOver(event[k])
                  => trace[k].kind = "skip" /\ trace[k].call = <<>>
        /\ response # Raised
        /\ Len(response.results)
               <= Cardinality({k \in 1..Len(event) : ~PassedOver(event[k])})

\* A batch of a REMOVE record with a full snapshot and a MODIFY record whose
\* snapshot has an order_id and no status: the results are empty.
C23_Witness ==
    /\ Dispatched
    /\ event = <<Change("REMOVE", Image([S |-> RECEIVED], FALSE)),
                 Change("MODIFY", [order_id |-> [S |-> "ord-3"]])>>
    /\ response = [processed_count |-> 0, results |-> <<>>]

----------------------------------------------------------------------------
(* Faults of the inventory store *)

\* The step is a stock read of CheckInventory that raised.
StockReadFaults(i) ==
    /\ Is(i, "InventoryFunction", "loaded")
    /\ Len(inv'[i].seen) = Len(inv[i].seen) + 1
    /\ inv'[i].seen[Len(inv'[i].seen)].recorded = ReadFault

\* The step is a decrement of Fulfill that raised though its condition held.
DecrementFaults(i) ==
    /\ Is(i, "FulfillmentFunction", "loaded")
    /\ inv[i].k <= Len(inv[i].order.items)
    /\ ~DecrementRefused(i)
    /\ inv'[i] # inv[i]
    /\ stock' = stock

\* The invocation saw a stock read raise.
SawReadFault(i) ==
    \E k \in 1..Len(inv[i].seen) :
        "recorded" \in DOMAIN inv[i].seen[k]
            /\ inv[i].seen[k].recorded = ReadFault

\* C24: a fault of the inventory store during a step (the stock read of
\* CheckInventory, the decrement of Fulfill when it is not a refusal) makes
\* the handler raise; it does not return a business-failure result.
C24_InventoryFaultRaises ==
    [][\A i \in Runs :
          /\ StockReadFaults(i) => inv'[i].pc = "except"
          /\ DecrementFaults(i) => inv'[i].pc = "except"
          /\ (inv[i].fn = "InventoryFunction" /\ SawReadFault(i))
                => inv'[i].result.status # "failed"]_vars

----------------------------------------------------------------------------
(* The pipeline under fair scheduling *)

MaxLive == 8        \* invocations of step functions in one fair run

\* One order is placed while product-1 has no item or a stock of up to
\* MaxOnHand, and product-2 has no item.
InitLive ==
    /\ orders = [o \in PipelineIds |-> NoItem]
    /\ stock \in {[p \in Products |-> IF p = "product-1" THEN s ELSE NoItem] :
                     s \in {NoItem} \cup {InventoryItem("product-1", n) :
                                             n \in 0..MaxOnHand}}
    /\ stock0 = stock
    /\ feed = <<>>
    /\ inv = <<>>
    /\ event = <<>>
    /\ response = NoResponse
    /\ trace = <<>>
    /\ raises = {}
    /\ dups = 0

\* No redelivery; the event source delivers the feed and the invocations the
\* transport holds run.
NextLive ==
    \/ \E o \in PipelineIds, body \in Bodies : CreateOrder(o, body)
    \/ StreamDeliverUpTo(MaxLive)
    \/ \E i \in 1..MaxLive : Step(i)

\* The run has outgrown the model: the next record of the feed asks for more
\* invocations than MaxLive allows.
Outgrown ==
    /\ feed # <<>>
    /\ Len(inv) + Len(handler(SubSeq(feed, 1, 1), {}).calls) > MaxLive

\* Fair execution of the handlers: an invocation that can go on does. Fair
\* delivery of the feed, which is weak fairness of StreamDeliverUpTo(MaxLive)
\* written out (the delivery is enabled exactly when the feed holds a record
\* and the run has not outgrown the model): time and again nothing is left
\* to deliver.
Fairness ==
    /\ WF_vars(\E i \in 1..MaxLive : Step(i))
    /\ []<>(feed = <<>> \/ Outgrown)

SpecLive == InitLive /\ [][NextLive]_vars /\ Fairness

\* A send of the notification channel failed.
SendFailed ==
    \E i \in Runs : /\ inv[i].fn = "NotificationFunction"
                    /\ inv[i].result.status = "failed"

\* Nothing is left to do for order o: the feed holds no record of it and
\* every invocation for it, of which there is one at least, has ended.
SettledFor(o) ==
    /\ \A k \in 1..Len(feed) : feed[k].dynamodb.NewImage.order_id.S # o
    /\ \E i \in Runs : inv[i].order_id = o
    /\ \A i \in Runs : inv[i].order_id = o => inv[i].pc \in {"done", "raised"}

\* C25: under fair delivery of change records and fair execution of the
\* dispatcher and the handlers, with a notification channel that succeeds,
\* every order inserted with status RECEIVED eventually is COMPLETED or
\* FAILED with nothing left to deliver or to run for it, and from then on
\* no step is triggered for it and its record stays as it is.
C25_EveryOrderSettles ==
    /\ \A o \in PipelineIds :
          Exists(o) ~> \/ Outgrown
                       \/ SendFailed
                       \/ /\ SettledFor(o)
                          /\ Exists(o)
                          /\ orders[o].status \in {COMPLETED, FAILED}
    /\ [][\A o \in PipelineIds :
             SettledFor(o)
                 => /\ orders'[o] = orders[o]
                    /\ SettledFor(o)'
                    /\ Cardinality({i \in 1..Len(inv') : inv'[i].order_id = o})
                           = Cardinality({i \in Runs : inv[i].order_id = o})]_vars

\* A run settled with the order COMPLETED: every invocation returned and
\* two of them were sends of the notification.
C25_Witness ==
    /\ Settled
    /\ ~Outgrown
    /\ ~SendFailed
    /\ \A i \in Runs : inv[i].pc = "done"
    /\ Cardinality({i \in Runs : inv[i].fn = "NotificationFunction"}) = 2
    /\ \E o \in Stored : orders[o].status = COMPLETED

----------------------------------------------------------------------------
(* Who changes the inventory *)

\* The step is a decrement of Fulfill that succeeded: invocation i takes the
\* quantity of the item it is at off the stock of the item's product, whose
\* condition held, and changes no other product.
SuccessfulDecrement(i) ==
    /\ Is(i, "FulfillmentFunction", "loaded")
    /\ inv[i].k <= Len(inv[i].order.items)
    /\ LET item == inv[i].order.items[inv[i].k] IN
       /\ stock[item.product_id] # NoItem
       /\ stock[item.product_id].stock_quantity >= item.quantity
       /\ stock' = [stock EXCEPT ![item.product_id].stock_quantity =
                                     @ - item.quantity]
       /\ inv'[i].k = inv[i].k + 1
       /\ inv'[i].seen[inv[i].k].success

\* C26: only Fulfill changes inventory. Validate, CheckInventory,
\* ProcessPayment, Notify and the dispatcher leave every stock_quantity as
\* it is, and Fulfill changes a stock only by subtracting the quantity of an
\* item whose conditional decrement succeeded.
C26_OnlyFulfillChangesStock ==
    [][stock' # stock => \E i \in Runs : SuccessfulDecrement(i)]_vars

\* Fulfill took both items of a two-item order off the stock, and the order
\* went on to Notify.
C26_Witness ==
    \E i, j \in Runs :
        /\ inv[i].fn = "FulfillmentFunction"
        /\ inv[i].result.status = "success"
        /\ Len(inv[i].seen) = 2
        /\ inv[j].fn = "NotificationFunction"
        /\ inv[j].pc = "done"
        /\ \A p \in Products :
              stock[p].stock_quantity = stock0[p].stock_quantity - 1

----------------------------------------------------------------------------
(* The dispatcher keeps no state *)

\* The invocations the dispatcher makes for each of the records when the
\* record is handed to it alone, one after the other.
RECURSIVE OneByOne(_, _)
OneByOne(records, k) ==
    IF k > Len(records) THEN <<>>
    ELSE Invocations(handler(<<records[k]>>, {}).calls, 1)
         \o OneByOne(records, k + 1)

\* C27: the dispatcher is stateless and read-only. A run of it on a batch
\* changes no order and no inventory record, and what it invokes for a
\* record is what it invokes for that record alone, whatever was delivered
\* before and whatever else is in the batch.
C27_DispatcherReadOnly ==
    [][Len(feed') < Len(feed)
          => LET n == Len(feed) - Len(feed') IN
             /\ orders' = orders
             /\ stock' = stock
             /\ feed' = SubSeq(feed, n + 1, Len(feed))
             /\ inv' = inv \o OneByOne(SubSeq(feed, 1, n), 1)]_vars

\* Two records with status INVENTORY_CHECKED were delivered at different
\* times, and the second one invoked PaymentFunction as the first had.
C27_Witness ==
    \E i, j \in Runs :
        /\ i < j
        /\ inv[i].fn = "PaymentFunction" /\ inv[i].pc = "done"
        /\ inv[j].fn = "PaymentFunction" /\ inv[j].pc = "queued"
        /\ inv[i].order_id = inv[j].order_id
        /\ orders[inv[i].order_id].status = PAYMENT_PROCESSED

----------------------------------------------------------------------------
(* The payment sub-status *)

\* C28: the payment sub-status of an order changes only along PENDING ->
\* PROCESSING -> COMPLETED or PENDING -> PROCESSING -> FAILED: it is
\* PROCESSING before it becomes COMPLETED or FAILED, and once COMPLETED or
\* FAILED it keeps its value, also when ProcessPayment runs again.
C28_PaymentLifecycle ==
    [][\A o \in DOMAIN orders :
          (/\ Exists(o)
           /\ orders'[o] # NoItem
           /\ orders'[o].payment.status # orders[o].payment.status)
              => \/ /\ orders[o].payment.status = "PENDING"
                    /\ orders'[o].payment.status = "PROCESSING"
                 \/ /\ orders[o].payment.status = "PROCESSING"
                    /\ orders'[o].payment.status \in {"COMPLETED", "FAILED"}]_vars

----------------------------------------------------------------------------
(* A declined payment *)

\* process_payment declines the order the invocation loaded.
Declines(i) ==
    /\ inv[i].fn = "PaymentFunction"
    /\ inv[i].order # NoItem
    /\ ~process_payment(inv[i].order, 1).success

\* C29: when ProcessPayment declines, the payment sub-status is written
\* first (FAILED, no transaction_id, the order status left as it is) and the
\* order status second: the invocation returns "failed" with the order at
\* status FAILED, payment.status FAILED, no transaction_id and the note
\* "Payment failed: Payment declined by processor".
C29_DeclineMarksBoth ==
    [][\A i \in Runs :
          (Declines(i) /\ Exists(inv[i].order_id) /\ inv'[i] # inv[i])
              => LET before == orders[inv[i].order_id]
                     after == orders'[inv[i].order_id]
                 IN  /\ inv[i].pc = "loaded"
                        => /\ inv'[i].pc = "paid"
                           /\ after.payment.status = "FAILED"
                           /\ after.payment.transaction_id = NoTx
                           /\ after.status = before.status
                           /\ after.notes = before.notes
                     /\ inv[i].pc = "paid"
                        => /\ inv'[i].pc = "done"
                           /\ inv'[i].result = Result("failed", inv[i].order_id)
                           /\ after.status = FAILED
                           /\ after.notes =
                                  Note("Payment failed: Payment declined by processor",
                                       0)
                           /\ after.payment.status = "FAILED"
                           /\ after.payment.transaction_id = NoTx]_vars

\* ProcessPayment declined "ord-1": the invocation returned "failed" and the
\* order is FAILED with a failed payment and no transaction_id.
C29_Witness ==
    \E i \in Runs :
        /\ inv[i].fn = "PaymentFunction"
        /\ inv[i].order_id = "ord-1"
        /\ inv[i].result = Result("failed", "ord-1")
        /\ orders["ord-1"].status = FAILED
        /\ orders["ord-1"].payment.status = "FAILED"
        /\ orders["ord-1"].payment.transaction_id = NoTx
        /\ orders["ord-1"].payment.amount = orders["ord-1"].total_amount

----------------------------------------------------------------------------
(* The order of the checks of Validate *)

\* The checks in their fixed order, each with whether the order fails it and
\* the reason it gives.
Checks(order) ==
    LET absent(f) == \/ f \notin DOMAIN order.shipping_address
                     \/ order.shipping_address[f] = ""
        lacks(c) == \A k \in DOMAIN order.customer.email :
                       order.customer.email[k] # c
    IN  << [fails |-> order.customer.email = <<>> \/ order.customer.name = "",
            reason |-> "Customer information is incomplete"],
           [fails |-> absent("street"),
            reason |-> "Shipping address is missing street"],
           [fails |-> absent("city"),
            reason |-> "Shipping address is missing city"],
           [fails |-> absent("postal_code"),
            reason |-> "Shipping address is missing postal_code"],
           [fails |-> absent("country"),
            reason |-> "Shipping address is missing country"],
           [fails |-> Len(order.items) = 0, reason |-> "Order has no items"],
           [fails |-> order.payment.payment_method = "",
            reason |-> "Payment method is required"],
           [fails |-> lacks("@") \/ lacks("."),
            reason |-> "Invalid email format"] >>

Failing(order) == {k \in 1..Len(Checks(order)) : Checks(order)[k].fails}

\* The reason of the earliest failing check.
FirstReason(order) ==
    LET first == CHOOSE k \in Failing(order) :
                     \A j \in Failing(order) : k <= j
    IN  Checks(order)[first].reason

\* C30: Validate reports the first failing check in the fixed order customer
\* information, shipping address (street, city, postal_code, country), items,
\* payment method, email format: for an order that fails several checks the
\* reason is that of the earliest one, whatever the later checks say.
C30_FirstFailingCheck ==
    \A i \in Runs :
        (inv[i].fn = "ValidatorFunction" /\ inv[i].pc = "done"
            /\ Failing(inv[i].order) # {})
            => /\ inv[i].result.status = "failed"
               /\ validate_order(inv[i].order).message.text
                      = FirstReason(inv[i].order)
               /\ orders[inv[i].order_id].notes.text
                      = "Validation failed: " \o FirstReason(inv[i].order)

\* An order that fails the checks of city, items, payment method and email
\* format was refused for its city.
C30_Witness ==
    \E i \in Runs :
        /\ inv[i].fn = "ValidatorFunction"
        /\ inv[i].pc = "done"
        /\ Failing(inv[i].order) = {3, 6, 7, 8}
        /\ orders[inv[i].order_id].notes.text
               = "Validation failed: Shipping address is missing city"

----------------------------------------------------------------------------
(* The note of a failed inventory check *)

\* The item lines of the order for which the stock CheckInventory read was
\* missing or below the requested quantity.
ShortLines(i) ==
    {k \in 1..Len(inv[i].seen) :
        \/ inv[i].seen[k].recorded = NoItem
        \/ inv[i].seen[k].recorded.stock_quantity < inv[i].seen[k].quantity}

\* C31: when CheckInventory fails, the note written with status FAILED is
\* "Inventory check failed: n item(s) unavailable" with n the number of item
\* lines that are unavailable, and every item line of the order was checked,
\* also after one was found unavailable.
C31_NoteCountsUnavailable ==
    [][\A i \in Runs :
          (/\ Is(i, "InventoryFunction", "loaded")
           /\ inv'[i].pc = "done"
           /\ inv'[i].result.status = "failed")
              => /\ Len(inv[i].seen) = Len(inv[i].order.items)
                 /\ \A k \in 1..Len(inv[i].seen) :
                       /\ inv[i].seen[k].product_id
                              = inv[i].order.items[k].product_id
                       /\ inv[i].seen[k].quantity
                              = inv[i].order.items[k].quantity
                 /\ ShortLines(i) # {}
                 /\ orders'[inv[i].order_id].status = FAILED
                 /\ orders'[inv[i].order_id].notes
                        = Note("Inventory check failed: item(s) unavailable",
                               Cardinality(ShortLines(i)))]_vars

\* The first line of a two-line order was unavailable, the second line was
\* checked all the same and was available: the note cites one item.
C31_Witness ==
    \E i \in Runs :
        /\ inv[i].fn = "InventoryFunction"
        /\ inv[i].result.status = "failed"
        /\ Len(inv[i].seen) = 2
        /\ ~inv[i].seen[1].available
        /\ inv[i].seen[2].available
        /\ orders[inv[i].order_id].status = FAILED
        /\ orders[inv[i].order_id].notes
               = Note("Inventory check failed: item(s) unavailable", 1)

----------------------------------------------------------------------------
(* process_payment alone, on orders drawn from a set *)

MaxTx == 2          \* runs of process_payment on one order

\* Item lists whose sum is below, at and above the threshold of 1000.00.
PaymentItems ==
    {<<[product_id |-> "product-1", quantity |-> 1, unit_price |-> 1999]>>,
     <<[product_id |-> "product-1", quantity |-> 2, unit_price |-> 50000]>>,
     <<[product_id |-> "product-1", quantity |-> 1, unit_price |-> 1999],
       [product_id |-> "product-2", quantity |-> 2, unit_price |-> 49999]>>}

\* The Order objects process_payment is run on: total_amount is None (0),
\* the sum of the items, or an amount the order was given.
PaymentOrders ==
    UNION {{[NewOrder(o, [BodyOne EXCEPT !.items = lines])
                EXCEPT !.total_amount = t] :
               o \in OrderIds, t \in {0, SumOver(lines, 1), 1999, 150000}} :
           lines \in PaymentItems}

InitPayment ==
    /\ orders = [o \in OrderIds |-> NoItem]
    /\ stock = [p \in Products |-> NoItem]
    /\ stock0 = stock
    /\ feed = <<>>
    /\ inv = <<>>
    /\ event \in {<<order>> : order \in PaymentOrders}
    /\ response = NoResponse
    /\ trace = <<>>
    /\ raises = {}
    /\ dups = 0

\* One run of process_payment on the order; uuid4 gives it a transaction id
\* no earlier run had.
ProcessPayment ==
    /\ Len(trace) < MaxTx
    /\ \E tx \in 1..MaxTx :
          /\ \A k \in 1..Len(trace) : trace[k].transaction_id # tx
          /\ response' = process_payment(event[1], tx)
          /\ trace' = Append(trace, process_payment(event[1], tx))
    /\ UNCHANGED <<orders, stock, stock0, feed, inv, event, raises, dups>>

NextPayment == ProcessPayment

SpecPayment == InitPayment /\ [][NextPayment]_vars

\* The amount the decision is taken on: the total_amount of the order when
\* it is set and not zero, the sum of the items otherwise.
AmountOf(order) ==
    IF order.total_amount # 0 THEN order.total_amount
    ELSE ItemSum(order.items)

\* The last character of the order_id.
Last(order) == Spelling(order.order_id)[Len(Spelling(order.order_id))]

\* C32: the mock payment decision is a function of the order alone. With
\* amount the stored total_amount when set and non-zero and the item sum
\* otherwise, the payment is declined exactly when the last character of
\* order_id is '1', or when amount > 1000 and the last character is '2';
\* every run on the same order gives the same decision.
C32_PaymentDecision ==
    /\ \A k \in 1..Len(trace) :
          /\ trace[k].amount = AmountOf(event[1])
          /\ ~trace[k].success
                <=> \/ Last(event[1]) = "1"
                    \/ AmountOf(event[1]) > 100000 /\ Last(event[1]) = "2"
          /\ trace[k].success <=> trace[k].transaction_id # NoTx
    /\ \A k, j \in 1..Len(trace) : trace[k].success = trace[j].success

\* Two runs declined "ord-2" for an amount above 1000 that is the sum of
\* its items, its total_amount being unset.
C32_Witness ==
    /\ Len(trace) = 2
    /\ event[1].order_id = "ord-2"
    /\ event[1].total_amount = 0
    /\ AmountOf(event[1]) > 100000
    /\ ~trace[1].success
    /\ ~trace[2].success

----------------------------------------------------------------------------
(* The audit trail of an order *)

\* The note a handler gives with each status of the forward chain.
SuccessNote ==
    [s \in {VALIDATED, INVENTORY_CHECKED, PAYMENT_PROCESSED, FULFILLED,
            COMPLETED} |->
        CASE s = VALIDATED -> Note("Order validated successfully", 0)
          [] s = INVENTORY_CHECKED -> Note("All items available in inventory", 0)
          [] s = PAYMENT_PROCESSED -> Note("Payment processed successfully", 0)
          [] s = FULFILLED -> Note("Order fulfilled. Tracking ID", 0)
          [] s = COMPLETED -> Note("Notification sent to customer", 0)]

\* The note explains the status: the note of the step for a status of the
\* chain, a note of a failure for FAILED.
Explains(note, status) ==
    /\ note # NoNote
    /\ IF status \in DOMAIN SuccessNote THEN note = SuccessNote[status]
       ELSE /\ status = FAILED
            /\ \A s \in DOMAIN SuccessNote : note # SuccessNote[s]

\* Invocation i records a status write in this step.
StatusWrite(i) == Len(inv'[i].wrote) = Len(inv[i].wrote) + 1

\* The status invocation i has written last.
LastWrote(i) == inv'[i].wrote[Len(inv'[i].wrote)]

\* C33: a status write of a step handler sets status, updated_at and notes
\* of the order in the one update, no other step changes the status or the
\* notes of a stored order, and so in every state the notes of an order a
\* handler has written to explain the status the order has.
C33_NotesFollowStatus ==
    /\ [](\A o \in Stored :
             (\E i \in Runs : inv[i].order_id = o /\ inv[i].wrote # <<>>)
                 => Explains(orders[o].notes, orders[o].status))
    /\ [][\A o \in Stored :
             /\ \A i \in Runs :
                   inv[i].order_id = o /\ StatusWrite(i)
                       => /\ orders'[o].status = LastWrote(i)
                          /\ orders'[o].updated_at = Now
                          /\ Explains(orders'[o].notes, LastWrote(i))
             /\ (orders'[o].status # orders[o].status
                    \/ orders'[o].notes # orders[o].notes)
                    => \E i \in Runs : inv[i].order_id = o /\ StatusWrite(i)]_vars

\* A later Payment run has rewritten COMPLETED to PAYMENT_PROCESSED, and
\* the notes are those of the payment step again.
C33_Witness ==
    \E o \in Stored :
        /\ orders[o].status = PAYMENT_PROCESSED
        /\ orders[o].notes = Note("Payment processed successfully", 0)
        /\ \E i \in Runs : /\ inv[i].order_id = o
                           /\ inv[i].wrote = <<COMPLETED>>

----------------------------------------------------------------------------
(* COMPLETED as a last status *)

\* C34: once the status of an order is COMPLETED no step changes it, whatever
\* invocations for the order are still running.
C34_CompletedIsTerminal ==
    [][\A o \in Stored :
          orders[o].status = COMPLETED
              => /\ orders'[o] # NoItem
                 /\ orders'[o].status = COMPLETED]_vars

----------------------------------------------------------------------------
(* Paid orders and FAILED *)

\* C35: with several orders drawing on the same stock, no order is both paid
\* and failed: an order whose status is FAILED does not have the payment
\* status COMPLETED.
C35_NoPaidAndFailed ==
    \A o \in Stored :
        orders[o].status = FAILED => orders[o].payment.status # "COMPLETED"

----------------------------------------------------------------------------
(* CheckInventory, then Fulfill, for one order and no other *)

Line(product_id, quantity) ==
    [product_id |-> product_id, quantity |-> quantity, unit_price |-> 1999]

\* Item lists of one line, of lines of two products and of two lines of
\* the same product.
LineLists ==
    {<<Line("product-1", q)>> : q \in 1..MaxQty}
      \cup {<<Line("product-1", q), Line("product-2", 1)>> : q \in 1..MaxQty}
      \cup {<<Line("product-1", q), Line("product-1", r)>> :
               q \in 1..MaxQty, r \in 1..MaxQty}

\* A validated order is stored; InventoryFunction (1) has been invoked for
\* it and FulfillmentFunction (2) will be.
InitCheckFulfill ==
    /\ orders \in {[o \in {"ord-3"} |->
                      [NewOrder(o, [BodyOne EXCEPT !.items = lines])
                          EXCEPT !.status = VALIDATED,
                                 !.notes = Note("Order validated successfully",
                                                0)]] :
                   lines \in LineLists}
    /\ stock \in [Products -> {InventoryItem(p, n) :
                                  p \in Products, n \in 0..MaxAvail}]
    /\ \A p \in Products : stock[p].product_id = p
    /\ stock0 = stock
    /\ feed = <<>>
    /\ inv = <<Invocation("InventoryFunction", "ord-3"),
               Invocation("FulfillmentFunction", "ord-3")>>
    /\ event = <<>>
    /\ response = NoResponse
    /\ trace = <<>>
    /\ raises = {}
    /\ dups = 0

\* FulfillmentFunction starts once the check has passed (the payment step
\* between the two reads and writes no stock); nothing else runs.
NextCheckFulfill ==
    \/ GetOrder(1)
    \/ InventoryCheck(1)
    \/ InventoryWrite(1)
    \/ /\ inv[1].pc = "done"
       /\ inv[1].result = Result("success", "ord-3")
       /\ GetOrder(2)
    \/ FulfillItem(2)
    \/ FulfillWrite(2)
    \/ Except(2)

SpecCheckFulfill == InitCheckFulfill /\ [][NextCheckFulfill]_vars

\* C36: when CheckInventory passed for an order and nothing but the
\* order's own Fulfill changes the stock afterwards, every decrement of
\* Fulfill succeeds and Fulfill ends in FULFILLED, also for an order with
\* several lines of the same product.
C36_CheckedThenFulfilled ==
    inv[1].result = Result("success", "ord-3")
        => /\ inv[2].pc \notin {"except", "raised"}
           /\ \A k \in 1..Len(inv[2].seen) : inv[2].seen[k].success
           /\ inv[2].pc = "done" => orders["ord-3"].status = FULFILLED

----------------------------------------------------------------------------
(* Expiry of a record under a running handler *)

\* orders_table has time_to_live_attribute "expiration_time": the store
\* removes an item that carries the attribute once its time has come. An
\* item written by to_dynamo_dict carries it.
Expiring(o) == Exists(o) /\ "total_amount" \in DOMAIN orders[o]

Expire(o) ==
    /\ Expiring(o)
    /\ orders' = [orders EXCEPT ![o] = NoItem]
    /\ feed' = Append(feed, [eventName |-> "REMOVE",
                             dynamodb |-> [OldImage |-> NewImage(orders[o])]])
    /\ UNCHANGED <<stock, inv, stock0, event, response, trace, raises, dups>>

\* update_item with Key (order_id, created_at) and no ConditionExpression:
\* the item found is updated, and a key not found gets a new item of the
\* key and the attributes SET.
update_item(order_id, created_at, status, notes) ==
    IF Exists(order_id) /\ orders[order_id].created_at = created_at
    THEN update_order_status(order_id, status, notes)
    ELSE [order_id |-> order_id, created_at |-> created_at,
          status |-> status, updated_at |-> Now, notes |-> notes]

\* order_validator.handler at update_order_status: get_order_created_at
\* queries the key (ValueError when no item is found).
ValidatorKey(i) ==
    /\ Is(i, "ValidatorFunction", "loaded")
    /\ inv' = IF Exists(inv[i].order_id)
              THEN [inv EXCEPT ![i].pc = "keyed",
                               ![i].seen =
                                   <<orders[inv[i].order_id].created_at>>]
              ELSE Raise(i)
    /\ UNCHANGED <<orders, stock, feed, stock0, event, response, trace, raises, dups>>

\* ... and then update_item writes under the key that was read.
ValidatorUpdate(i) ==
    /\ Is(i, "ValidatorFunction", "keyed")
    /\ LET v == validate_order(inv[i].order)
           o == inv[i].order_id
           status == IF v.is_valid THEN VALIDATED ELSE FAILED
           notes == IF v.is_valid
                    THEN Note("Order validated successfully", 0)
                    ELSE Note("Validation failed: " \o v.message.text, 0)
           item == update_item(o, inv[i].seen[1], status, notes)
       IN  /\ orders' = [orders EXCEPT ![o] = item]
           /\ feed' = Append(feed,
                  IF Exists(o) THEN ChangeRecord("MODIFY", item)
                  ELSE [eventName |-> "INSERT",
                        dynamodb |-> [NewImage |->
                            [order_id |-> [S |-> item.order_id],
                             status |-> [S |-> item.status]]]])
           /\ inv' = Return(i, IF v.is_valid THEN "success" ELSE "failed",
                            status)
    /\ UNCHANGED <<stock, stock0, event, response, trace, raises, dups>>

\* Two orders have been created and their INSERT records wait in the feed.
InitExpiry ==
    /\ orders \in {[o \in PipelineIds |->
                      NewOrder(o, IF o = "ord-3" THEN b ELSE c)] :
                   b \in {BodyOne, BodyNoEmail}, c \in {BodyOne, BodyNoEmail}}
    /\ stock = [p \in Products |-> NoItem]
    /\ stock0 = stock
    /\ feed = <<ChangeRecord("INSERT", orders["ord-3"]),
                ChangeRecord("INSERT", orders["ord-1"])>>
    /\ inv = <<>>
    /\ event = <<>>
    /\ response = NoResponse
    /\ trace = <<>>
    /\ raises = {}
    /\ dups = 0

NextExpiry ==
    \/ StreamDeliverUpTo(MaxCalls)
    \/ \E o \in PipelineIds : Expire(o)
    \/ \E i \in 1..MaxCalls :
          \/ GetOrder(i)
          \/ ValidatorKey(i)
          \/ ValidatorUpdate(i)
          \/ Except(i)

SpecExpiry == InitExpiry /\ [][NextExpiry]_vars

\* The (order_id, created_at) keys of the order store.
Keys == {<<o, orders[o].created_at>> : o \in Stored}

\* A step of the store's expiry: a record goes and no invocation moves.
ExpiryStep ==
    /\ inv' = inv
    /\ \E o \in Stored : orders' = [orders EXCEPT ![o] = NoItem]

\* C37: a step of a handler or of the dispatcher leaves the set of
\* (order_id, created_at) keys of the order store as it was: it creates no
\* order record, deletes none and changes no key, also when expiry removes
\* the record between the handler's read of the key and its status write.
C37_KeysUnchanged ==
    [][ExpiryStep \/ {<<o, orders'[o].created_at>> :
                         o \in {p \in DOMAIN orders' : orders'[p] # NoItem}}
                        = Keys]_vars

----------------------------------------------------------------------------
(* Steps of two orders side by side *)

\* The stored item of an order the pipeline has brought to the status.
OrderAt(order_id, status) ==
    LET order == NewOrder(order_id, BodyOne) IN
    [order EXCEPT
        !.status = status,
        !.notes = IF status = RECEIVED THEN NoNote ELSE SuccessNote[status],
        !.updated_at = IF status = RECEIVED THEN @ ELSE Now,
        !.payment = IF status \in {PAYMENT_PROCESSED, FULFILLED}
                    THEN [@ EXCEPT !.status = "COMPLETED",
                                   !.transaction_id = 1,
                                   !.amount = order.total_amount]
                    ELSE @]

\* The statuses the table binds a step to.
BoundStatuses ==
    {RECEIVED, VALIDATED, INVENTORY_CHECKED, PAYMENT_PROCESSED, FULFILLED}

\* Two orders are stored, each at a status with a step bound to it, and
\* the dispatcher has invoked the step of each.
InitPair ==
    \E s \in BoundStatuses, t \in BoundStatuses, a \in 0..MaxOnHand :
        /\ orders = [o \in PipelineIds |->
                        IF o = "ord-3" THEN OrderAt(o, s) ELSE OrderAt(o, t)]
        /\ stock = [p \in Products |->
                       IF p = "product-1" THEN InventoryItem(p, a) ELSE NoItem]
        /\ stock0 = stock
        /\ feed = <<>>
        /\ inv = <<Invocation(status_to_function(s), "ord-3"),
                   Invocation(status_to_function(t), "ord-1")>>
        /\ event = <<>>
        /\ response = NoResponse
        /\ trace = <<>>
        /\ raises = {}
        /\ dups = 0

NextPair == \E i \in 1..MaxCalls : Step(i)

SpecPair == InitPair /\ [][NextPair]_vars

\* The invocations that move in this step.
Moving == {i \in Runs : inv'[i] # inv[i]}

\* C38: a step of a handler invoked with an order_id writes the record of
\* that order and of no other: the status, notes, payment and every other
\* field of any other order are left as they were, whatever steps of other
\* orders run at the same time; only the stock is shared.
C38_OrdersIsolated ==
    [][\A o \in DOMAIN orders :
          orders'[o] # orders[o]
              => /\ Cardinality(Moving) = 1
                 /\ \A i \in Moving : inv[i].order_id = o
                 /\ \A p \in DOMAIN orders \ {o} : orders'[p] = orders[p]]_vars

\* Both invocations have written, each to its own order, and the first one
\* wrote while the second was between its load and its write.
C38_Witness ==
    /\ Len(inv) = 2
    /\ inv[1].wrote # <<>>
    /\ inv[2].wrote # <<>>
    /\ inv[2].order # NoItem
    /\ inv[2].order.status = inv[1].order.status
    /\ inv[1].order.updated_at = inv[2].order.updated_at
    /\ orders["ord-3"].status = inv[1].wrote[Len(inv[1].wrote)]
    /\ orders["ord-1"].status = inv[2].wrote[Len(inv[2].wrote)]

----------------------------------------------------------------------------
(* The output of the dispatcher *)

\* The snapshot has no usable value under the key: the key is absent, or its
\* value is empty, null or zero.
Lacks(image, key) ==
    \/ key \notin DOMAIN image
    \/ \E t \in DOMAIN image[key] :
          \/ t = "NULL"
          \/ t = "S" /\ image[key][t] = ""
          \/ t = "N" /\ image[key][t] = 0
          \/ t = "BOOL" /\ image[key][t] = FALSE

\* The record is ignored: it is neither INSERT nor MODIFY, it has no
\* snapshot, or its snapshot lacks order_id or status.
Ignored(record) ==
    /\ "eventName" \in DOMAIN record
    /\ \/ record.eventName \notin {"INSERT", "MODIFY"}
       \/ /\ "dynamodb" \in DOMAIN record
          /\ \/ "NewImage" \notin DOMAIN record.dynamodb
             \/ Lacks(record.dynamodb.NewImage, "order_id")
             \/ Lacks(record.dynamodb.NewImage, "status")

\* The records of the batch, up to the k-th, that are not ignored.
KeptUpTo(k) == {j \in 1..k : ~Ignored(event[j])}

\* C39: the output of the dispatcher has processed_count = length of results
\* = number of records of the batch that were not ignored, and results has
\* one entry for each such record, in the order of the batch; a record with
\* a status no step is bound to has an entry too, with the message "No
\* processing required for this status".
C39_OneEntryPerRecord ==
    Dispatched =>
        /\ response # Raised
        /\ response.processed_count = Len(response.results)
        /\ Len(response.results) = Cardinality(KeptUpTo(Len(event)))
        /\ \A k \in KeptUpTo(Len(event)) :
              LET entry == response.results[Cardinality(KeptUpTo(k))] IN
              /\ Fails(event[k], k \in raises) => "error" \in DOMAIN entry
              /\ Carries(event[k])
                    => /\ entry.order_id = PyStr(OrderIdOf(event[k]))
                       /\ entry.status = PyStr(StatusOf(event[k]))
                       /\ BoundStep(StatusOf(event[k])) = "None"
                             <=> entry.message
                                    = "No processing required for this status"

\* A batch of an ignored record and a COMPLETED snapshot: the one entry of
\* the results is that of the second record.
C39_Witness ==
    /\ Dispatched
    /\ event = <<Change("REMOVE", Image([S |-> RECEIVED], FALSE)),
                 Change("MODIFY", Image([S |-> COMPLETED], TRUE))>>
    /\ response.processed_count = 1
    /\ response.results[1].message = "No processing required for this status"
    /\ response.results[1].status = PyStr(COMPLETED)

====
